---- MODULE Spec2Model ----
(***************************************************************************)
(* State-machine model of the manager bot of hrvibe_two_bots_together:     *)
(* the users records file, the vacancy directories, the resume records     *)
(* files, the AI task queue and the handlers, admin sweeps and queued jobs *)
(* that read and write them.                                               *)
(*                                                                         *)
(* Handlers are translated as operators on a "world" record (the files on  *)
(* disk, the per-user context and the outputs of the handler so far), so   *)
(* that a handler that calls another handler is the composition of the two *)
(* operators, as in the source.  An action applies one handler to the      *)
(* current world and commits the result.                                   *)
(***************************************************************************)
EXTENDS Integers, Sequences, FiniteSets, TLC

(***************************************************************************)
(* Finite universes of the model.                                          *)
(***************************************************************************)
Users == {"u1", "u2"}
\* the manager whose funnel is explored step by step: a handler reads and
\* writes only the record, the context and the directories of its own user
FunnelUsers == {"u1"}
Vacancies == {"v1", "v2"}
Resumes == {"r1", "r2"}
\* contents HH can return for a vacancy description, and the AI for criteria
Descriptions == {"d1", "d2"}
Criterias == {"c1", "c2"}

\* hh_authorization_command: max_attempts = 30
max_attempts == 30

\* capacity of ai_task_queue in the model (TaskQueue(maxsize=500) in the source)
MaxQueue == 2

VARIABLES
    users,           \* users records file: record id -> user record
    vac,             \* vacancy directories: vac[u][v], files of one vacancy
    ctx,             \* context.user_data of each Telegram user
    kb,              \* inline keyboards shown in the chat of each user
    ai_task_queue,   \* jobs put into ai_task_queue and not yet run
    resume_records,  \* resume records file of each (user, vacancy)
    resume_dir,      \* where resume_<id>.json of each (user, vacancy) lies
    applicant_videos,\* video_from_applicants directory of each (user, vacancy)
    outreach,        \* resumes whose applicant got the outreach message, per (user, vacancy)
    delivered,       \* resumes recommended to the manager so far, per (user, vacancy)
    last,            \* the last operation run and what it sent and called
    race,            \* callers that are between the read and the write of an update
    orchestrator     \* main.py: the orchestrator process and its two bot processes

vars == <<users, vac, ctx, kb, ai_task_queue, resume_records, resume_dir,
          applicant_videos, outreach, delivered, last, race, orchestrator>>

(***************************************************************************)
(* main.py: the orchestrator starts the manager bot and the applicant bot  *)
(* as child processes.  A bot is "none" before it is started, "running" or *)
(* "exited"; returncode is what p.poll() gives ("None" while the bot is    *)
(* alive, then "0" or "1", "1" standing for every other code); terminate   *)
(* and kill tell whether the orchestrator has sent it SIGTERM and SIGKILL. *)
(* procs is the list of the started bots; reason, phase, todo and deadline *)
(* belong to the call of shutdown in progress.                             *)
(***************************************************************************)
\* main() before "Launch processes"
OrchestratorStarted ==
    [ pc |-> "start_manager", procs |-> <<>>,
      bots |-> [b \in {"manager", "applicant"} |->
                   [state |-> "none", returncode |-> "None",
                    terminate |-> FALSE, kill |-> FALSE]],
      reason |-> "", phase |-> "", todo |-> <<>>, deadline |-> FALSE,
      exit_code |-> -1 ]

\* a start_bot_process that returns: Popen has made the child, and main()
\* appends it to procs
start_bot_process(o, name) ==
    [o EXCEPT !.bots[name].state = "running", !.procs = Append(@, name)]

\* "Both bots started successfully": the state of the orchestrator while the
\* manager bot serves its users
BothBotsStarted ==
    [start_bot_process(start_bot_process(OrchestratorStarted, "manager"), "applicant")
        EXCEPT !.pc = "monitoring"]

(***************************************************************************)
(* Records.                                                                *)
(***************************************************************************)
\* data_service.create_record_for_new_user_in_records: standard_new_user_values
standard_new_user_values ==
    [ username |-> "",
      privacy_policy_confirmed |-> "no",
      access_token_recieved |-> "no",
      access_token |-> "",
      access_token_expires_at |-> "",
      data_from_hh |-> "empty",
      vacancy_selected |-> "no",
      vacancy_id |-> "",
      vacancy_name |-> "",
      vacancy_video_record_agreed |-> "no",
      vacancy_video_sending_confirmed |-> "no",
      vacancy_video_received |-> "no",
      vacancy_video_path |-> "",
      vacancy_description_recieved |-> "no",
      vacancy_sourcing_criterias_recieved |-> "no" ]

\* data_service.create_record_for_new_resume_id_in_resume_records: the new record
standard_new_resume_values ==
    [ negotiation_id |-> "",
      first_name |-> "",
      ai_analysis |-> "empty",
      resume_sorting_status |-> "new",
      request_to_shoot_resume_video_sent |-> "no",
      resume_video_received |-> "no",
      resume_video_path |-> "",
      resume_recommended |-> "no" ]

\* a vacancy directory that was never created
NoVacancyDir ==
    [ exists |-> FALSE, description |-> "none", criteria |-> "none",
      negotiations_file |-> "absent", negotiations |-> {} ]

\* context.user_data of a user that no handler has written yet
EmptyContext ==
    [ privacy_policy_confirmation_answer_options |-> FALSE,
      vacancy_options |-> {},
      video_record_request_options |-> FALSE,
      sending_video_confirmation_answer_options |-> FALSE,
      pending_file_id |-> FALSE ]

\* No inline keyboard was sent to the user yet.  A keyboard that was sent stays
\* in the chat and can be clicked at any later time, also after it was answered
\* (questionnaire_service, which may remove keyboards, is not part of the
\* sources; keeping them allows every order of clicks that removing allows).
NoKeyboards ==
    [ privacy |-> FALSE, vacancy |-> {}, video_request |-> FALSE, sending |-> FALSE ]

\* the value of the environment variable ADMIN_ID of a deployment that sets it
Admin == "admin"

NoOp ==
    [ op |-> "none", user |-> "", msgs |-> {}, admin |-> FALSE, polls |-> 0,
      calls |-> {}, failed |-> {}, sent |-> {}, delivered |-> {},
      raised |-> FALSE, write_attempts |-> 0, processed |-> <<>>, report |-> <<>>,
      admin_id |-> Admin ]

(***************************************************************************)
(* The world a handler runs in: the persisted state, the context, and the  *)
(* outputs of the handler so far (messages to the user, a notification to  *)
(* the admin, calls of get_token_by_state, downstream commands triggered,  *)
(* stages whose external call failed, outreach messages and               *)
(* recommendations sent, whether the handler is waiting for room in the    *)
(* task queue, and whether an exception is propagating).  disk names the   *)
(* key of a resume record whose write to the records file fails during     *)
(* this handler ("none": every write succeeds), write_attempts counts the  *)
(* attempts of that write; processed lists the users an admin sweep has    *)
(* invoked its per-user command for and report holds the two numbers of    *)
(* the closing message of the sweep; admin_id is what os.getenv gives for  *)
(* ADMIN_ID ("" when it is not set).                                       *)
(***************************************************************************)
World ==
    [ users |-> users, vac |-> vac, ctx |-> ctx, kb |-> kb,
      queue |-> ai_task_queue, rrec |-> resume_records, rdir |-> resume_dir,
      videos |-> applicant_videos, outreach |-> outreach, delivered |-> delivered,
      msgs |-> {}, admin |-> FALSE, polls |-> 0, calls |-> {}, failed |-> {},
      sent |-> {}, delivered_now |-> {}, blocked |-> FALSE, raised |-> FALSE,
      disk |-> "none", write_attempts |-> 0, processed |-> <<>>, report |-> <<>>,
      admin_id |-> Admin ]

\* questionnaire_service.send_message_to_user / application.bot.send_message
send_message_to_user(w, text) == [w EXCEPT !.msgs = @ \cup {text}]

\* manager_bot.send_message_to_admin
\* (nothing is sent when ADMIN_ID is not set)
send_message_to_admin(w) == IF w.admin_id = "" THEN w ELSE [w EXCEPT !.admin = TRUE]

Called(w, name) == [w EXCEPT !.calls = @ \cup {name}]
ExternalFailed(w, stage) == [w EXCEPT !.failed = @ \cup {stage}]
Blocked(w) == [w EXCEPT !.blocked = TRUE]
Raised(w) == [w EXCEPT !.raised = TRUE]
\* an except clause that catches everything
Caught(w) == [w EXCEPT !.raised = FALSE]
\* an admin sweep calls its per-user command for user_id; the counter of the
\* sweep is incremented when the call returns
Invoked(w, user_id) == [w EXCEPT !.processed = Append(@, user_id)]
\* "Total users: {len(user_ids)}. ... for: {count} users." at the end of a
\* sweep that started in w and got to w1 without an exception
Reported(w, w1) ==
    [w1 EXCEPT !.report = <<Cardinality(DOMAIN w.users), Len(w1.processed)>>]

(***************************************************************************)
(* status_validation_service: the checks handlers make on the records.     *)
(***************************************************************************)
is_user_in_records(w, u) == u \in DOMAIN w.users

is_manager_privacy_policy_confirmed(w, u) ==
    u \in DOMAIN w.users /\ w.users[u].privacy_policy_confirmed = "yes"

is_user_authorized(w, u) ==
    u \in DOMAIN w.users /\ w.users[u].access_token_recieved = "yes"

is_hh_data_in_user_record(w, u) ==
    u \in DOMAIN w.users /\ w.users[u].data_from_hh # "empty"

is_vacancy_selected(w, u) ==
    u \in DOMAIN w.users /\ w.users[u].vacancy_selected = "yes"

is_vacancy_description_recieved(w, u) ==
    u \in DOMAIN w.users /\ w.users[u].vacancy_description_recieved = "yes"

is_vacancy_sourcing_criterias_recieved(w, u) ==
    u \in DOMAIN w.users /\ w.users[u].vacancy_sourcing_criterias_recieved = "yes"

\* reads vacancy_video_record_agreed, as the source does
is_welcome_video_recorded(w, u) ==
    u \in DOMAIN w.users /\ w.users[u].vacancy_video_record_agreed = "yes"

is_sourcing_criterias_file_exists(w, u, v) == w.vac[u][v].criteria # "none"

\* is_vacany_data_enough_for_resume_analysis that does not look at the
\* description and the sourcing criterias
is_vacany_data_enough_for_resume_analysis_without_files(w, u) ==
    /\ is_user_authorized(w, u)
    /\ is_vacancy_selected(w, u)

is_vacany_data_enough_for_resume_analysis(w, u) ==
    /\ is_user_authorized(w, u)
    /\ is_vacancy_selected(w, u)
    /\ is_vacancy_description_recieved(w, u)
    /\ is_vacancy_sourcing_criterias_recieved(w, u)

(***************************************************************************)
(* data_service: reads and whole-file read-modify-write updates.  Inside   *)
(* one handler of the event loop the read and the write are not            *)
(* interleaved with anything, which is what these operators express; the   *)
(* interleaved executions are the subject of SpecRace below.               *)
(***************************************************************************)
\* "" stands for None
get_target_vacancy_id_from_records(w, u) ==
    IF u \in DOMAIN w.users THEN w.users[u].vacancy_id ELSE ""

\* a creation that writes the standard values also over an existing record
create_record_for_new_user_in_records_overwriting(w, u) ==
    [w EXCEPT !.users = (u :> standard_new_user_values) @@ @]

create_record_for_new_user_in_records(w, u) ==
    IF u \in DOMAIN w.users THEN w
    ELSE [w EXCEPT !.users = (u :> standard_new_user_values) @@ @]

\* an update that sets the key in every record of the file
update_user_records_with_top_level_key_in_every_record(w, u, key, value) ==
    IF u \in DOMAIN w.users
    THEN [w EXCEPT !.users = [x \in DOMAIN w.users |-> [w.users[x] EXCEPT ![key] = value]]]
    ELSE w

update_user_records_with_top_level_key(w, u, key, value) ==
    IF u \in DOMAIN w.users THEN [w EXCEPT !.users[u][key] = value] ELSE w

\* create_vacancy_directory and the directories and files made with it
create_vacancy_directory(w, u, v) == [w EXCEPT !.vac[u][v].exists = TRUE]

(***************************************************************************)
(* TaskQueue (task_queue.py is not part of the sources; modelled from the  *)
(* specification: bounded FIFO, put waits while the queue is full, no      *)
(* deduplication of jobs).                                                 *)
(***************************************************************************)
\* a put that returns without queueing the job when the queue is full
ai_task_queue_put_dropping(w, job) ==
    IF Len(w.queue) >= MaxQueue THEN w
    ELSE [w EXCEPT !.queue = Append(@, job)]

ai_task_queue_put(w, job) ==
    IF Len(w.queue) >= MaxQueue THEN Blocked(w)
    ELSE [w EXCEPT !.queue = Append(@, job)]

(***************************************************************************)
(* Vacancy stage: sourcing criteria and vacancy description.               *)
(***************************************************************************)
\* the queued job; ai is the result of analyze_vacancy_with_ai or "raise"
get_sourcing_criterias_from_ai_and_save_to_file(w, job, ai) ==
    IF ai = "raise"
    THEN send_message_to_admin(ExternalFailed(w, "vacancy_sourcing_criterias_recieved"))
    ELSE LET w1 == [w EXCEPT !.vac[job.user][job.vacancy].exists = TRUE,
                             !.vac[job.user][job.vacancy].criteria = ai]
             w2 == update_user_records_with_top_level_key(
                       w1, job.user, "vacancy_sourcing_criterias_recieved", "yes")
         IN send_message_to_user(w2, "SUCCESS_TO_START_SOURCING_TEXT")

define_sourcing_criterias_command(w0, u) ==
    LET w == Called(w0, "define_sourcing_criterias_command")
        v == get_target_vacancy_id_from_records(w, u)
    IN  IF ~is_vacancy_selected(w, u)
        THEN send_message_to_user(w, "MISSING_VACANCY_SELECTION_TEXT")
        ELSE IF ~is_vacancy_description_recieved(w, u)
        THEN send_message_to_user(w, "MISSING_VACANCY_DESCRIPTION_TEXT")
        ELSE IF is_sourcing_criterias_file_exists(w, u, v)
        THEN send_message_to_user(w, "SUCCESS_TO_GET_SOURCING_CRITERIAS_TEXT")
        ELSE IF w.vac[u][v].description = "none"
        THEN \* open() of the description file raises
             send_message_to_admin(send_message_to_user(w, "FAIL_TECHNICAL_SUPPORT_TEXT"))
        ELSE ai_task_queue_put(
                 send_message_to_user(w, "ANALYSING_VACANCY_TEXT"),
                 [ kind |-> "vacancy_analysis", user |-> u, vacancy |-> v,
                   resume |-> "", input |-> w.vac[u][v].description ])

\* read_vacancy_description_command without the early return on an existing
\* description file
read_vacancy_description_command_overwriting(w0, u, description) ==
    LET w == Called(w0, "read_vacancy_description_command")
        v == get_target_vacancy_id_from_records(w, u)
    IN  IF ~is_vacancy_selected(w, u)
        THEN send_message_to_user(w, "MISSING_VACANCY_SELECTION_TEXT")
        ELSE IF description = "none"
        THEN ExternalFailed(create_vacancy_directory(w, u, v),
                            "vacancy_description_recieved")
        ELSE LET w1 == send_message_to_user(create_vacancy_directory(w, u, v),
                                            "READING_VACANCY_DESCRIPTION_TEXT")
                 w2 == [w1 EXCEPT !.vac[u][v].description = description]
                 w3 == update_user_records_with_top_level_key(
                           w2, u, "vacancy_description_recieved", "yes")
             IN define_sourcing_criterias_command(w3, u)

\* description is what get_vacancy_description_from_hh returns, "none" for None
read_vacancy_description_command(w0, u, description) ==
    LET w == Called(w0, "read_vacancy_description_command")
        v == get_target_vacancy_id_from_records(w, u)
    IN  IF ~is_vacancy_selected(w, u)
        THEN send_message_to_user(w, "MISSING_VACANCY_SELECTION_TEXT")
        ELSE IF w.vac[u][v].description # "none"
        THEN create_vacancy_directory(w, u, v)
        ELSE IF description = "none"
        THEN ExternalFailed(create_vacancy_directory(w, u, v),
                            "vacancy_description_recieved")
        ELSE LET w1 == send_message_to_user(create_vacancy_directory(w, u, v),
                                            "READING_VACANCY_DESCRIPTION_TEXT")
                 w2 == [w1 EXCEPT !.vac[u][v].description = description]
                 w3 == update_user_records_with_top_level_key(
                           w2, u, "vacancy_description_recieved", "yes")
             IN define_sourcing_criterias_command(w3, u)

(***************************************************************************)
(* Welcome video stage.                                                    *)
(***************************************************************************)
\* video_service.download_incoming_video_locally; download is whether Telegram
\* delivers the file.  The second update passes a Path as value, json.dumps
\* raises on it before anything is written, and the except branch only logs.
download_incoming_video_locally(w0, u, file_id, download) ==
    LET w == Called(w0, "download_incoming_video_locally")
    IN  IF get_target_vacancy_id_from_records(w, u) = "" \/ ~file_id \/ ~download
        THEN w
        ELSE update_user_records_with_top_level_key(w, u, "vacancy_video_received", "yes")

handle_answer_confrim_sending_video(w, u, decision, download) ==
    IF ~w.ctx[u].sending_video_confirmation_answer_options
    THEN send_message_to_user(w, "FAIL_TECHNICAL_SUPPORT_TEXT")
    ELSE LET w1 == [w EXCEPT !.ctx[u].sending_video_confirmation_answer_options = FALSE]
             w2 == send_message_to_user(w1, "YOU_SELECTED_TEXT")
             w3 == update_user_records_with_top_level_key(
                       w2, u, "vacancy_video_sending_confirmed", decision)
             file_id == w3.ctx[u].pending_file_id
         IN  IF decision = "yes"
             THEN LET w4 == download_incoming_video_locally(w3, u, file_id, download)
                  IN IF ~file_id
                     THEN send_message_to_user(w4, "MISSING_VIDEO_RECORD_TEXT")
                     ELSE w4
             ELSE send_message_to_user(w3, "WAITING_FOR_ANOTHER_VIDEO_TEXT")

ask_confirm_sending_video_command(w, u) ==
    send_message_to_user(
        [w EXCEPT !.ctx[u].sending_video_confirmation_answer_options = TRUE,
                  !.kb[u].sending = TRUE],
        "VIDEO_SENDING_CONFIRMATION_TEXT")

\* video_service.process_incoming_video; valid is the outcome of the validation
process_incoming_video(w, u, valid) ==
    IF ~valid THEN send_message_to_user(w, "VIDEO_REJECTED_TEXT")
    ELSE ask_confirm_sending_video_command(
             [w EXCEPT !.ctx[u].pending_file_id = TRUE], u)

ask_to_record_video_command(w0, u) ==
    LET w == Called(w0, "ask_to_record_video_command")
    IN  IF ~is_manager_privacy_policy_confirmed(w, u)
        THEN send_message_to_user(w, "MISSING_PRIVACY_POLICY_CONFIRMATION_TEXT")
        ELSE IF ~is_vacancy_selected(w, u)
        THEN send_message_to_user(w, "MISSING_VACANCY_SELECTION_TEXT")
        ELSE IF is_welcome_video_recorded(w, u)
        THEN send_message_to_user(w, "SUCCESS_TO_RECORD_VIDEO_TEXT")
        ELSE send_message_to_user(
                 [w EXCEPT !.ctx[u].video_record_request_options = TRUE,
                           !.kb[u].video_request = TRUE],
                 "WELCOME_VIDEO_RECORD_REQUEST_TEXT")

\* The options missing from the context are replaced by the default ones, so
\* the clicked button is always identified; the decision is written unguarded.
handle_answer_video_record_request(w, u, decision, description) ==
    LET w1 == [w EXCEPT !.ctx[u].video_record_request_options = FALSE]
        w2 == send_message_to_user(w1, "YOU_SELECTED_TEXT")
        w3 == update_user_records_with_top_level_key(
                  w2, u, "vacancy_video_record_agreed", decision)
    IN  IF decision = "yes"
        THEN send_message_to_user(w3, "INSTRUCTIONS_TO_SHOOT_VIDEO_TEXT")
        ELSE read_vacancy_description_command(
                 send_message_to_user(w3, "CONTINUE_WITHIOUT_WELCOME_VIDEO_TEXT"),
                 u, description)

(***************************************************************************)
(* Vacancy selection.                                                      *)
(***************************************************************************)
\* select_vacancy_command without the return for a manager who has selected a
\* vacancy: the vacancies are listed and offered again
select_vacancy_command_offering_again(w0, u, listing) ==
    LET w == Called(w0, "select_vacancy_command")
    IN  IF ~is_manager_privacy_policy_confirmed(w, u)
        THEN send_message_to_user(w, "MISSING_PRIVACY_POLICY_CONFIRMATION_TEXT")
        ELSE IF ~is_hh_data_in_user_record(w, u)
        THEN send_message_to_admin(w)
        ELSE IF ~listing.ok \/ listing.open = {}
        THEN send_message_to_admin(ExternalFailed(
                 send_message_to_user(w, "FAILED_TO_GET_OPEN_VACANCIES_TEXT"),
                 "vacancy_selected"))
        ELSE send_message_to_user(
                 [w EXCEPT !.ctx[u].vacancy_options = listing.open,
                           !.kb[u].vacancy = @ \cup listing.open],
                 "SELECT_VACANCY_TEXT")

\* listing is the answer of get_employer_vacancies_from_hh: ok is FALSE for
\* None, open is the set of open vacancies
select_vacancy_command(w0, u, listing) ==
    LET w == Called(w0, "select_vacancy_command")
    IN  IF ~is_manager_privacy_policy_confirmed(w, u)
        THEN send_message_to_user(w, "MISSING_PRIVACY_POLICY_CONFIRMATION_TEXT")
        ELSE IF is_vacancy_selected(w, u)
        THEN send_message_to_user(w, "SUCCESS_TO_SELECT_VACANCY_TEXT")
        ELSE IF ~is_hh_data_in_user_record(w, u)
        THEN \* get_employer_id_from_records raises on the empty data_from_hh
             send_message_to_admin(w)
        ELSE IF ~listing.ok \/ listing.open = {}
        THEN send_message_to_admin(ExternalFailed(
                 send_message_to_user(w, "FAILED_TO_GET_OPEN_VACANCIES_TEXT"),
                 "vacancy_selected"))
        ELSE send_message_to_user(
                 [w EXCEPT !.ctx[u].vacancy_options = listing.open,
                           !.kb[u].vacancy = @ \cup listing.open],
                 "SELECT_VACANCY_TEXT")

\* v is the callback data of the clicked button
handle_answer_select_vacancy(w, u, v) ==
    LET w1 == create_vacancy_directory(w, u, v)
        answer_options == w1.ctx[u].vacancy_options
    IN  IF answer_options = {} \/ v \notin answer_options
        THEN send_message_to_admin(
                 send_message_to_user(w1, "FAIL_TECHNICAL_SUPPORT_TEXT"))
        ELSE LET w2 == [w1 EXCEPT !.ctx[u].vacancy_options = {}]
                 w3 == update_user_records_with_top_level_key(w2, u, "vacancy_selected", "yes")
                 w4 == update_user_records_with_top_level_key(w3, u, "vacancy_name", v)
                 w5 == update_user_records_with_top_level_key(w4, u, "vacancy_id", v)
             IN ask_to_record_video_command(
                    send_message_to_user(w5, "YOU_SELECTED_VACANCY_TEXT"), u)

(***************************************************************************)
(* Authorization on HH.                                                    *)
(***************************************************************************)
\* hh_user is whether get_user_info_from_hh returns the user info for the
\* access token of the record (else None, on which
\* clean_user_info_received_from_hh raises); with no token in the record the
\* request is sent with "Bearer None", which api.hh.ru refuses
pull_user_data_from_hh_command(w0, u, hh_user, listing) ==
    LET w == Called(w0, "pull_user_data_from_hh_command")
    IN  IF is_hh_data_in_user_record(w, u) THEN w
        ELSE IF ~hh_user \/ ~is_user_in_records(w, u) \/ w.users[u].access_token = ""
        THEN send_message_to_admin(ExternalFailed(w, "data_from_hh"))
        ELSE select_vacancy_command(
                 update_user_records_with_top_level_key(w, u, "data_from_hh", "employer"),
                 u, listing)

\* What get_token_by_state returns at an attempt (auth_service is not part of
\* the sources).  The endpoint answers "none" (None) before attempt poll.at and
\* poll.answer from then on: "token" (a dict with token and expiry),
\* "no_token" (another dict), "not_ready" (the records-not-ready response) or
\* "none".
get_token_by_state(poll, attempt) ==
    IF attempt < poll.at THEN "none" ELSE poll.answer

\* the for loop of hh_authorization_command and the statement after it
RECURSIVE wait_for_user_authorization(_, _, _, _, _, _)
wait_for_user_authorization(w, u, poll, hh_user, listing, attempt) ==
    IF attempt > max_attempts
    THEN IF get_token_by_state(poll, max_attempts) = "none"
         THEN send_message_to_user(w, "AUTH_FAILED_TEXT")
         ELSE w
    ELSE LET endpoint_response == get_token_by_state(poll, attempt)
             w1 == [w EXCEPT !.polls = @ + 1]
         IN  IF endpoint_response \in {"token", "no_token"}
             THEN LET w2 == IF endpoint_response = "token"
                            THEN update_user_records_with_top_level_key(
                                   update_user_records_with_top_level_key(
                                     update_user_records_with_top_level_key(
                                       w1, u, "access_token_recieved", "yes"),
                                     u, "access_token", "token"),
                                   u, "access_token_expires_at", "expires_at")
                            ELSE w1
                  IN pull_user_data_from_hh_command(
                         send_message_to_user(w2, "AUTH_SUCCESS_TEXT"),
                         u, hh_user, listing)
             ELSE wait_for_user_authorization(w1, u, poll, hh_user, listing, attempt + 1)

\* hh_authorization_command without the check of the privacy policy consent
hh_authorization_command_without_consent(w0, u, env) ==
    LET w == Called(w0, "hh_authorization_command")
    IN  IF is_user_authorized(w, u)
        THEN send_message_to_user(w, "SUCCESS_TO_HH_AUTHORIZATION_TEXT")
        ELSE IF ~env.health
        THEN send_message_to_admin(ExternalFailed(
                 send_message_to_user(w, "AUTH_SERVER_UNAVAILABLE_TEXT"),
                 "access_token_recieved"))
        ELSE LET w1 == wait_for_user_authorization(
                           send_message_to_user(w, "AUTH_REQ_TEXT"),
                           u, env.poll, env.hh_user, env.listing, 1)
             IN IF is_user_authorized(w1, u) THEN w1
                ELSE ExternalFailed(w1, "access_token_recieved")

\* env carries the answers of the outside world: health
\* (callback_endpoint_healthcheck), poll, hh_user and listing
hh_authorization_command(w0, u, env) ==
    LET w == Called(w0, "hh_authorization_command")
    IN  IF ~is_manager_privacy_policy_confirmed(w, u)
        THEN send_message_to_user(w, "MISSING_PRIVACY_POLICY_CONFIRMATION_TEXT")
        ELSE IF is_user_authorized(w, u)
        THEN send_message_to_user(w, "SUCCESS_TO_HH_AUTHORIZATION_TEXT")
        ELSE IF ~env.health
        THEN send_message_to_admin(ExternalFailed(
                 send_message_to_user(w, "AUTH_SERVER_UNAVAILABLE_TEXT"),
                 "access_token_recieved"))
        ELSE LET w1 == wait_for_user_authorization(
                           send_message_to_user(w, "AUTH_REQ_TEXT"),
                           u, env.poll, env.hh_user, env.listing, 1)
             IN IF is_user_authorized(w1, u) THEN w1
                ELSE ExternalFailed(w1, "access_token_recieved")

(***************************************************************************)
(* Start and privacy policy.                                               *)
(***************************************************************************)
ask_privacy_policy_confirmation_command(w0, u) ==
    LET w == Called(w0, "ask_privacy_policy_confirmation_command")
    IN  IF is_manager_privacy_policy_confirmed(w, u)
        THEN send_message_to_user(w, "SUCCESS_TO_GET_PRIVACY_POLICY_CONFIRMATION_TEXT")
        ELSE send_message_to_user(
                 [w EXCEPT !.ctx[u].privacy_policy_confirmation_answer_options = TRUE,
                           !.kb[u].privacy = TRUE],
                 "PRIVACY_POLICY_CONFIRMATION_TEXT")

handle_answer_policy_confirmation(w, u, decision, env) ==
    IF ~w.ctx[u].privacy_policy_confirmation_answer_options
    THEN send_message_to_user(w, "FAIL_TECHNICAL_SUPPORT_TEXT")
    ELSE LET w1 == [w EXCEPT !.ctx[u].privacy_policy_confirmation_answer_options = FALSE]
             w2 == send_message_to_user(w1, "YOU_SELECTED_TEXT")
             w3 == update_user_records_with_top_level_key(
                       w2, u, "privacy_policy_confirmed", decision)
         IN  IF decision = "yes"
             THEN hh_authorization_command(
                      send_message_to_user(
                          w3, "SUCCESS_TO_GET_PRIVACY_POLICY_CONFIRMATION_TEXT"),
                      u, env)
             ELSE send_message_to_user(w3, "MISSING_PRIVACY_POLICY_CONFIRMATION_TEXT")

setup_new_user_command(w, u) ==
    update_user_records_with_top_level_key(
        create_record_for_new_user_in_records(w, u), u, "username", "tg_username")

start_command(w, u) ==
    ask_privacy_policy_confirmation_command(setup_new_user_command(w, u), u)

(***************************************************************************)
(* Resume pipeline: data_service operations on the resume records file of  *)
(* one (user, vacancy).                                                    *)
(***************************************************************************)
create_record_for_new_resume_id_in_resume_records(w, u, v, r) ==
    IF r \in DOMAIN w.rrec[u][v] THEN w
    ELSE [w EXCEPT !.rrec[u][v] = (r :> standard_new_resume_values) @@ @]

\* raises when the record does not exist, and when reading or writing the
\* file raises (every exception is re-raised as ValueError); a write that
\* raises leaves the file as it was
update_resume_record_with_top_level_key(w, u, v, r, key, value) ==
    IF r \notin DOMAIN w.rrec[u][v] THEN Raised(w)
    ELSE IF w.disk = key THEN Raised([w EXCEPT !.write_attempts = @ + 1])
    ELSE [w EXCEPT !.rrec[u][v][r][key] = value]

is_applicant_video_recorded(w, u, v, r) ==
    r \in DOMAIN w.rrec[u][v] /\ w.rrec[u][v][r].resume_video_received = "yes"

\* get_list_of_resume_ids_for_recommendation without the third criterion:
\* every passed resume with a video, recommended before or not
get_list_of_resume_ids_for_recommendation_with_recommended(w, u, v) ==
    { r \in DOMAIN w.rrec[u][v] :
        /\ w.rrec[u][v][r].resume_sorting_status = "passed"
        /\ w.rrec[u][v][r].resume_video_received = "yes" }

get_list_of_resume_ids_for_recommendation(w, u, v) ==
    { r \in DOMAIN w.rrec[u][v] :
        /\ w.rrec[u][v][r].resume_sorting_status = "passed"
        /\ w.rrec[u][v][r].resume_video_received = "yes"
        /\ w.rrec[u][v][r].resume_recommended = "no" }

\* the order in which the loops of the source visit users and resumes
UserOrder == <<"u1", "u2">>
ResumeOrder == <<"r1", "r2">>

get_list_of_users_from_records(w) == SelectSeq(UserOrder, LAMBDA x : x \in DOMAIN w.users)

(***************************************************************************)
(* Sourcing of negotiations and resumes.                                   *)
(***************************************************************************)
\* answer is what get_negotiations_by_collection returns: ok is FALSE for None
source_negotiations_triggered_by_admin_command(w, u, answer) ==
    LET v == get_target_vacancy_id_from_records(w, u)
    IN  [w EXCEPT !.vac[u][v].exists = TRUE,
                  !.vac[u][v].negotiations_file = IF answer.ok THEN "items" ELSE "null",
                  !.vac[u][v].negotiations = IF answer.ok THEN answer.items ELSE {}]

\* the body of the loop over the fresh resumes; available are the resumes for
\* which get_resume_info returns the resume (it returns None for the others,
\* on which resume_data.get raises)
RECURSIVE download_fresh_resumes(_, _, _, _, _)
download_fresh_resumes(w, u, v, fresh, available) ==
    IF fresh = <<>> \/ w.raised THEN w
    ELSE LET r == Head(fresh)
             w1 == [w EXCEPT !.rdir[u][v][r] = "new"]
             w2 == create_record_for_new_resume_id_in_resume_records(w1, u, v, r)
             w3 == update_resume_record_with_top_level_key(
                       w2, u, v, r, "negotiation_id", "negotiation")
             w4 == update_resume_record_with_top_level_key(
                       w3, u, v, r, "first_name", "name")
         IN  IF r \notin available THEN Raised(w2)
             ELSE download_fresh_resumes(w4, u, v, Tail(fresh), available)

\* source_resumes_triggered_by_admin_command that takes every resume of the
\* negotiations collection for fresh and writes its record anew
source_resumes_triggered_by_admin_command_resetting(w, u, available) ==
    LET v == get_target_vacancy_id_from_records(w, u)
        ids == w.vac[u][v].negotiations
    IN  IF w.vac[u][v].negotiations_file = "absent" THEN w
        ELSE IF w.vac[u][v].negotiations_file = "null" THEN Raised(w)
        ELSE [w EXCEPT
                !.rrec[u][v] = [r \in DOMAIN w.rrec[u][v] \cup ids |->
                                  IF r \in ids THEN standard_new_resume_values
                                  ELSE w.rrec[u][v][r]],
                !.rdir[u][v] = [r \in Resumes |->
                                  IF r \in ids THEN "new" ELSE w.rdir[u][v][r]]]

source_resumes_triggered_by_admin_command(w, u, available) ==
    LET v == get_target_vacancy_id_from_records(w, u)
    IN  IF w.vac[u][v].negotiations_file = "absent" THEN w
        ELSE IF w.vac[u][v].negotiations_file = "null"
        THEN \* negotiations_collection_data["items"] on None
             Raised(w)
        ELSE LET resumes_ids_in_resume_records == DOMAIN w.rrec[u][v]
                 fresh_resume_ids_list ==
                     SelectSeq(ResumeOrder,
                               LAMBDA r : r \in w.vac[u][v].negotiations
                                            \ resumes_ids_in_resume_records)
             IN download_fresh_resumes(w, u, v, fresh_resume_ids_list, available)

(***************************************************************************)
(* Analysis of resumes: the sweep enqueues one job per file in "new", the  *)
(* job scores, reaches out to the applicant and sorts.                     *)
(***************************************************************************)
RECURSIVE queue_resumes_for_analysis(_, _, _, _)
queue_resumes_for_analysis(w, u, v, new_resumes) ==
    IF new_resumes = <<>> \/ w.blocked THEN w
    ELSE queue_resumes_for_analysis(
             ai_task_queue_put(
                 w, [ kind |-> "resume_analysis", user |-> u, vacancy |-> v,
                      resume |-> Head(new_resumes), input |-> w.vac[u][v].criteria ]),
             u, v, Tail(new_resumes))

analyze_resume_triggered_by_admin_command(w, u) ==
    LET v == get_target_vacancy_id_from_records(w, u)
    IN  IF w.vac[u][v].description = "none" \/ w.vac[u][v].criteria = "none"
        THEN \* open() of the description or of the criteria file raises
             Raised(w)
        ELSE queue_resumes_for_analysis(
                 w, u, v,
                 SelectSeq(ResumeOrder, LAMBDA r : w.rdir[u][v][r] = "new"))

\* send_message_to_applicant_command writing whether the message was delivered
send_message_to_applicant_command_recording_outcome(w0, u, r, send_ok) ==
    LET w == Called(w0, "get_target_vacancy_id_from_records")
        v == get_target_vacancy_id_from_records(w, u)
    IN  IF r \notin DOMAIN w.rrec[u][v]
        THEN Raised(w)
        ELSE LET w1 == IF send_ok
                       THEN [w EXCEPT !.sent = @ \cup {r},
                                      !.outreach[u][v] = @ \cup {r}]
                       ELSE ExternalFailed(w, "request_to_shoot_resume_video_sent")
             IN update_resume_record_with_top_level_key(
                    w1, u, v, r, "request_to_shoot_resume_video_sent",
                    IF send_ok THEN "yes" ELSE "no")

\* send_ok is whether hh_service.send_negotiation_message delivers the message;
\* when it does not, it logs and returns None (it never raises), so the except
\* branch of the source is not taken and the flag is written in both cases.
\* The command gets bot_user_id and resume_id only: the vacancy (and the
\* access token) are looked up in the record of the user when it runs, and
\* the lookup is recorded in calls.
send_message_to_applicant_command(w0, u, r, send_ok) ==
    LET w == Called(w0, "get_target_vacancy_id_from_records")
        v == get_target_vacancy_id_from_records(w, u)
    IN  IF r \notin DOMAIN w.rrec[u][v]
        THEN \* get_negotiation_id_from_resume_record raises KeyError
             Raised(w)
        ELSE LET w1 == IF send_ok
                       THEN [w EXCEPT !.sent = @ \cup {r},
                                      !.outreach[u][v] = @ \cup {r}]
                       ELSE ExternalFailed(w, "request_to_shoot_resume_video_sent")
             IN update_resume_record_with_top_level_key(
                    w1, u, v, r, "request_to_shoot_resume_video_sent", "yes")

\* resume_analysis_from_ai_to_user_sort_resume with the comparison of
\* final_score and RESUME_PASSED_SCORE left out: every analysed resume passes
resume_analysis_from_ai_to_user_sort_resume_without_threshold(w, job, ai, send_ok) ==
    LET u == job.user
        v == job.vacancy
        r == job.resume
        w1 == update_resume_record_with_top_level_key(w, u, v, r, "ai_analysis", ai)
        w2 == send_message_to_applicant_command(w1, u, r, send_ok)
        w3 == IF w2.rdir[u][v][r] # "new" THEN Raised(w2)
              ELSE update_resume_record_with_top_level_key(
                       [w2 EXCEPT !.rdir[u][v][r] = "passed"],
                       u, v, r, "resume_sorting_status", "passed")
    IN  IF ai = "raise" THEN ExternalFailed(w, "ai_analysis")
        ELSE IF w1.raised THEN Caught(w1)
        ELSE IF w2.raised THEN Caught(w2)
        ELSE Caught(w3)

\* resume_analysis_from_ai_to_user_sort_resume sorting by the records only,
\* whether or not the file of the resume is still in "new"
resume_analysis_from_ai_to_user_sort_resume_any_file(w, job, ai, send_ok) ==
    LET u == job.user
        v == job.vacancy
        r == job.resume
        w1 == update_resume_record_with_top_level_key(w, u, v, r, "ai_analysis", ai)
        w2 == send_message_to_applicant_command(w1, u, r, send_ok)
        status == IF ai = "high" THEN "passed" ELSE "failed"
        w3 == update_resume_record_with_top_level_key(
                  [w2 EXCEPT !.rdir[u][v][r] = status],
                  u, v, r, "resume_sorting_status", status)
    IN  IF ai = "raise" THEN ExternalFailed(w, "ai_analysis")
        ELSE IF w1.raised THEN Caught(w1)
        ELSE IF w2.raised THEN Caught(w2)
        ELSE Caught(w3)

\* resume_analysis_from_ai_to_user_sort_resume without its except branch: an
\* exception of a step leaves the job
resume_analysis_from_ai_to_user_sort_resume_uncaught(w, job, ai, send_ok) ==
    LET u == job.user
        v == job.vacancy
        r == job.resume
        w1 == update_resume_record_with_top_level_key(w, u, v, r, "ai_analysis", ai)
        w2 == send_message_to_applicant_command(w1, u, r, send_ok)
        status == IF ai = "high" THEN "passed" ELSE "failed"
        w3 == IF w2.rdir[u][v][r] # "new" THEN Raised(w2)
              ELSE update_resume_record_with_top_level_key(
                       [w2 EXCEPT !.rdir[u][v][r] = status],
                       u, v, r, "resume_sorting_status", status)
    IN  IF ai = "raise" THEN Raised(ExternalFailed(w, "ai_analysis"))
        ELSE IF w1.raised THEN w1
        ELSE IF w2.raised THEN w2
        ELSE w3

\* ai is the answer of analyze_resume_with_ai: "raise", or whether final_score
\* reaches RESUME_PASSED_SCORE ("high") or not ("low")
resume_analysis_from_ai_to_user_sort_resume(w, job, ai, send_ok) ==
    LET u == job.user
        v == job.vacancy
        r == job.resume
        w1 == update_resume_record_with_top_level_key(w, u, v, r, "ai_analysis", ai)
        w2 == send_message_to_applicant_command(w1, u, r, send_ok)
        status == IF ai = "high" THEN "passed" ELSE "failed"
        \* shutil.move raises when the file is no longer in "new"
        w3 == IF w2.rdir[u][v][r] # "new" THEN Raised(w2)
              ELSE update_resume_record_with_top_level_key(
                       [w2 EXCEPT !.rdir[u][v][r] = status],
                       u, v, r, "resume_sorting_status", status)
    IN  IF ai = "raise" THEN ExternalFailed(w, "ai_analysis")
        ELSE IF w1.raised THEN Caught(w1)
        ELSE IF w2.raised THEN Caught(w2)
        ELSE Caught(w3)

(***************************************************************************)
(* Videos of applicants and recommendations.                               *)
(***************************************************************************)
RECURSIVE record_fresh_videos(_, _, _, _)
record_fresh_videos(w, u, v, videos) ==
    IF videos = <<>> \/ w.raised THEN w
    ELSE LET r == Head(videos)
             w1 == update_resume_record_with_top_level_key(
                       w, u, v, r, "resume_video_received", "yes")
             w2 == update_resume_record_with_top_level_key(
                       w1, u, v, r, "resume_video_path", "video")
         IN  IF is_applicant_video_recorded(w, u, v, r)
             THEN record_fresh_videos(w, u, v, Tail(videos))
             ELSE IF w1.raised THEN w1
             ELSE record_fresh_videos(w2, u, v, Tail(videos))

update_resume_records_with_fresh_video_from_applicants_command(w, u, v) ==
    LET w1 == IF w.videos[u][v] = {}
              THEN \* the video_from_applicants directory is made with the
                   \* first video; without it the command raises ValueError
                   Raised(w)
              ELSE record_fresh_videos(
                       w, u, v, SelectSeq(ResumeOrder, LAMBDA r : r \in w.videos[u][v]))
    IN IF w1.raised THEN send_message_to_admin(Caught(w1)) ELSE w1

\* The list of the resumes to recommend is taken with
\* get_list_of_resume_ids_for_recommendation.  Each resume of the list is
\* delivered (text, video, invite button); nothing is written to the records.
recommend_resumes_with_video_command(w0, u) ==
    LET w == Called(w0, "recommend_resumes_with_video_command")
        v == get_target_vacancy_id_from_records(w, u)
    IN  IF ~is_vacancy_selected(w, u)
        THEN send_message_to_user(w, "MISSING_VACANCY_SELECTION_TEXT")
        ELSE IF ~is_vacancy_description_recieved(w, u)
        THEN send_message_to_user(w, "MISSING_VACANCY_DESCRIPTION_TEXT")
        ELSE IF ~is_vacancy_sourcing_criterias_recieved(w, u)
        THEN send_message_to_user(w, "MISSING_SOURCING_CRITERIAS_TEXT")
        ELSE LET passed_resume_ids_with_video ==
                     get_list_of_resume_ids_for_recommendation(w, u, v)
             IN  IF passed_resume_ids_with_video = {}
                 THEN send_message_to_user(w, "NO_CANDIDATES_WITH_VIDEO_TEXT")
                 ELSE send_message_to_user(
                          [w EXCEPT !.delivered_now = @ \cup passed_resume_ids_with_video,
                                    !.delivered[u][v] = @ \cup passed_resume_ids_with_video],
                          "RECOMMENDATION_TEXT")

(***************************************************************************)
(* Initial state: the bot has just been deployed, the records file is      *)
(* empty and no directory exists.                                          *)
(***************************************************************************)
NoResumeRecords == [r \in {} |-> standard_new_resume_values]

InitFiles ==
    /\ vac = [u \in Users |-> [v \in Vacancies |-> NoVacancyDir]]
    /\ resume_records = [u \in Users |-> [v \in Vacancies |-> NoResumeRecords]]
    /\ resume_dir = [u \in Users |-> [v \in Vacancies |-> [r \in Resumes |-> "none"]]]
    /\ applicant_videos = [u \in Users |-> [v \in Vacancies |-> {}]]
    /\ outreach = [u \in Users |-> [v \in Vacancies |-> {}]]
    /\ delivered = [u \in Users |-> [v \in Vacancies |-> {}]]

Init ==
    /\ users = [u \in {} |-> standard_new_user_values]
    /\ InitFiles
    /\ ctx = [u \in Users |-> EmptyContext]
    /\ kb = [u \in Users |-> NoKeyboards]
    /\ ai_task_queue = <<>>
    /\ last = NoOp
    /\ race = <<>>
    /\ orchestrator = BothBotsStarted

\* the handler has run to its end: its writes and outputs become the state
Commit(w, op, u) ==
    /\ ~w.blocked
    /\ users' = w.users
    /\ vac' = w.vac
    /\ ctx' = w.ctx
    /\ kb' = w.kb
    /\ ai_task_queue' = w.queue
    /\ resume_records' = w.rrec
    /\ resume_dir' = w.rdir
    /\ applicant_videos' = w.videos
    /\ outreach' = w.outreach
    /\ delivered' = w.delivered
    /\ last' = [ op |-> op, user |-> u, msgs |-> w.msgs, admin |-> w.admin,
                 polls |-> w.polls, calls |-> w.calls, failed |-> w.failed,
                 sent |-> w.sent, delivered |-> w.delivered_now,
                 raised |-> w.raised, write_attempts |-> w.write_attempts,
                 processed |-> w.processed, report |-> w.report,
                 admin_id |-> w.admin_id ]
    /\ UNCHANGED <<race, orchestrator>>

(***************************************************************************)
(* The answers of the outside world that handlers depend on.               *)
(***************************************************************************)
Decisions == {"yes", "no"}
Polls ==
    { [answer |-> "token", at |-> 1], [answer |-> "token", at |-> max_attempts],
      [answer |-> "no_token", at |-> 1], [answer |-> "not_ready", at |-> 1],
      [answer |-> "none", at |-> 1] }
Listings ==
    { [ok |-> FALSE, open |-> {}], [ok |-> TRUE, open |-> {}],
      [ok |-> TRUE, open |-> Vacancies] }
\* the answers that make a difference: the later ones are only asked for
\* when the earlier ones let the handler go on
AuthEnvs ==
    LET NoListing == [ok |-> FALSE, open |-> {}]
        NoPoll == [answer |-> "none", at |-> 1]
    IN  { [health |-> FALSE, poll |-> NoPoll, hh_user |-> FALSE, listing |-> NoListing] }
        \cup { [health |-> TRUE, poll |-> p, hh_user |-> FALSE, listing |-> NoListing] :
                 p \in Polls }
        \cup { [health |-> TRUE, poll |-> p, hh_user |-> TRUE, listing |-> l] :
                 p \in { q \in Polls : q.answer \in {"token", "no_token"} },
                 l \in Listings }
HHDescriptions == Descriptions \cup {"none"}
AIResults == Criterias \cup {"raise"}

(***************************************************************************)
(* Actions of the manager funnel: one per update the bot receives.         *)
(***************************************************************************)
StartCommand(u) ==
    /\ u \in Users
    /\ Commit(start_command(World, u), "start_command", u)

AskPrivacyPolicyConfirmationCommand(u) ==
    /\ u \in Users
    /\ Commit(ask_privacy_policy_confirmation_command(World, u),
              "ask_privacy_policy_confirmation_command", u)

HandleAnswerPolicyConfirmation(u) ==
    /\ kb[u].privacy
    /\ \E decision \in Decisions, env \in AuthEnvs :
         Commit(handle_answer_policy_confirmation(World, u, decision, env),
                "handle_answer_policy_confirmation", u)

HhAuthorizationCommand(u) ==
    /\ u \in Users
    /\ \E env \in AuthEnvs :
         Commit(hh_authorization_command(World, u, env), "hh_authorization_command", u)

SelectVacancyCommand(u) ==
    /\ u \in Users
    /\ \E listing \in Listings :
         Commit(select_vacancy_command(World, u, listing), "select_vacancy_command", u)

HandleAnswerSelectVacancy(u) ==
    \E v \in kb[u].vacancy :
        Commit(handle_answer_select_vacancy(World, u, v),
               "handle_answer_select_vacancy", u)

AskToRecordVideoCommand(u) ==
    /\ u \in Users
    /\ Commit(ask_to_record_video_command(World, u), "ask_to_record_video_command", u)

HandleAnswerVideoRecordRequest(u) ==
    /\ kb[u].video_request
    /\ \E decision \in Decisions, description \in HHDescriptions :
         Commit(handle_answer_video_record_request(World, u, decision, description),
                "handle_answer_video_record_request", u)

ProcessIncomingVideo(u) ==
    /\ u \in Users
    /\ \E valid \in BOOLEAN :
         Commit(process_incoming_video(World, u, valid), "process_incoming_video", u)

HandleAnswerConfrimSendingVideo(u) ==
    /\ kb[u].sending
    /\ \E decision \in Decisions, download \in BOOLEAN :
         Commit(handle_answer_confrim_sending_video(World, u, decision, download),
                "handle_answer_confrim_sending_video", u)

ReadVacancyDescriptionCommand(u) ==
    /\ u \in Users
    /\ \E description \in HHDescriptions :
         Commit(read_vacancy_description_command(World, u, description),
                "read_vacancy_description_command", u)

DefineSourcingCriteriasCommand(u) ==
    /\ u \in Users
    /\ Commit(define_sourcing_criterias_command(World, u),
              "define_sourcing_criterias_command", u)

\* a worker of the task queue takes the oldest job and runs it
RunVacancyAnalysisJob ==
    /\ ai_task_queue # <<>>
    /\ Head(ai_task_queue).kind = "vacancy_analysis"
    /\ \E ai \in AIResults :
         Commit(get_sourcing_criterias_from_ai_and_save_to_file(
                    [World EXCEPT !.queue = Tail(@)], Head(ai_task_queue), ai),
                "get_sourcing_criterias_from_ai_and_save_to_file",
                Head(ai_task_queue).user)

Next ==
    \/ \E u \in FunnelUsers : StartCommand(u)
    \/ \E u \in FunnelUsers : AskPrivacyPolicyConfirmationCommand(u)
    \/ \E u \in FunnelUsers : HandleAnswerPolicyConfirmation(u)
    \/ \E u \in FunnelUsers : HhAuthorizationCommand(u)
    \/ \E u \in FunnelUsers : SelectVacancyCommand(u)
    \/ \E u \in FunnelUsers : HandleAnswerSelectVacancy(u)
    \/ \E u \in FunnelUsers : AskToRecordVideoCommand(u)
    \/ \E u \in FunnelUsers : HandleAnswerVideoRecordRequest(u)
    \/ \E u \in FunnelUsers : ProcessIncomingVideo(u)
    \/ \E u \in FunnelUsers : HandleAnswerConfrimSendingVideo(u)
    \/ \E u \in FunnelUsers : ReadVacancyDescriptionCommand(u)
    \/ \E u \in FunnelUsers : DefineSourcingCriteriasCommand(u)
    \/ RunVacancyAnalysisJob

Spec == Init /\ [][Next]_vars

(***************************************************************************)
(* Properties of the manager funnel.                                       *)
(***************************************************************************)
StageFlags ==
    { "privacy_policy_confirmed", "access_token_recieved", "vacancy_selected",
      "vacancy_video_record_agreed", "vacancy_video_received",
      "vacancy_description_recieved", "vacancy_sourcing_criterias_recieved" }

\* C4: a stage flag of a user record that is "yes" is still "yes" after every
\* step (handler, callback answer, job), unless the step selects another
\* vacancy for the user.
C4_StageFlagsMonotonic ==
    [][\A u \in DOMAIN users : \A f \in StageFlags :
          users[u][f] = "yes" =>
              /\ u \in DOMAIN users'
              /\ \/ users'[u][f] = "yes"
                 \/ users'[u].vacancy_id # users[u].vacancy_id]_vars

\* the stage a stage command advances is already completed for the user
StageCompleted(op, u) ==
    /\ u \in DOMAIN users
    /\ CASE op = "hh_authorization_command" ->
                users[u].access_token_recieved = "yes"
         [] op = "select_vacancy_command" ->
                users[u].vacancy_selected = "yes"
         [] op = "read_vacancy_description_command" ->
                users[u].vacancy_description_recieved = "yes"
         [] op = "define_sourcing_criterias_command" ->
                users[u].vacancy_sourcing_criterias_recieved = "yes"
         [] OTHER -> FALSE

\* C6: a stage command invoked for a user whose stage is already completed
\* leaves the users records, the vacancy files and the task queue as they were.
C6_AdvanceIdempotent ==
    [][StageCompleted(last'.op, last'.user) =>
          /\ users' = users
          /\ vac' = vac
          /\ ai_task_queue' = ai_task_queue]_vars

\* C6 happens: define_sourcing_criterias_command was invoked again after the
\* criteria were derived, and answered that they exist
C6_Witness ==
    /\ last.op = "define_sourcing_criterias_command"
    /\ last.user \in DOMAIN users
    /\ users[last.user].vacancy_sourcing_criterias_recieved = "yes"
    /\ "SUCCESS_TO_GET_SOURCING_CRITERIAS_TEXT" \in last.msgs

\* C9: hh_authorization_command for a user whose privacy_policy_confirmed is
\* not "yes" polls the endpoint zero times, calls no other command and leaves
\* the users records (and the files and the queue) unchanged.
C9_AuthorizationRefusedWithoutConsent ==
    [][(/\ last'.op = "hh_authorization_command"
        /\ ~(/\ last'.user \in DOMAIN users
             /\ users[last'.user].privacy_policy_confirmed = "yes"))
       => /\ users' = users
          /\ vac' = vac
          /\ ai_task_queue' = ai_task_queue
          /\ last'.polls = 0
          /\ last'.calls = {"hh_authorization_command"}]_vars

\* C9 happens: a registered user who answered "no" to the privacy policy
\* invoked hh_authorization_command and got the refusal
C9_Witness ==
    /\ last.op = "hh_authorization_command"
    /\ last.user \in DOMAIN users
    /\ users[last.user].privacy_policy_confirmed = "no"
    /\ last.msgs = {"MISSING_PRIVACY_POLICY_CONFIRMATION_TEXT"}

\* messages that tell the user that something failed
FailureTexts ==
    { "FAIL_TECHNICAL_SUPPORT_TEXT", "AUTH_FAILED_TEXT",
      "AUTH_SERVER_UNAVAILABLE_TEXT", "FAILED_TO_GET_OPEN_VACANCIES_TEXT" }

\* C10: when the external call of a stage failed in the last operation, the
\* flag of the stage is "no" and the failure was reported to the user or to
\* the admin.
C10_FailureLeavesFlagUnsetAndIsReported ==
    \A stage \in last.failed :
        /\ (stage \in StageFlags /\ last.user \in DOMAIN users)
               => users[last.user][stage] = "no"
        /\ last.admin \/ last.msgs \cap FailureTexts # {}

(***************************************************************************)
(* Resume pipeline.  The pipeline starts when manager "u1" has gone        *)
(* through the funnel for vacancy "v1" (consent, authorization, vacancy    *)
(* selected, no welcome video, description read, criteria derived by the   *)
(* queued job) and "u2" has only sent /start.  The handlers and jobs of    *)
(* the one event loop run one after the other.                             *)
(***************************************************************************)
Callers == {Admin, "u1"}

FunnelCompleted ==
    LET w0 == [ users |-> [u \in {} |-> standard_new_user_values],
                vac |-> [u \in Users |-> [v \in Vacancies |-> NoVacancyDir]],
                ctx |-> [u \in Users |-> EmptyContext],
                kb |-> [u \in Users |-> NoKeyboards],
                queue |-> <<>>,
                rrec |-> [u \in Users |-> [v \in Vacancies |-> NoResumeRecords]],
                rdir |-> [u \in Users |-> [v \in Vacancies |-> [r \in Resumes |-> "none"]]],
                videos |-> [u \in Users |-> [v \in Vacancies |-> {}]],
                outreach |-> [u \in Users |-> [v \in Vacancies |-> {}]],
                delivered |-> [u \in Users |-> [v \in Vacancies |-> {}]],
                msgs |-> {}, admin |-> FALSE, polls |-> 0, calls |-> {}, failed |-> {},
                sent |-> {}, delivered_now |-> {}, blocked |-> FALSE, raised |-> FALSE,
                disk |-> "none", write_attempts |-> 0, processed |-> <<>>,
                report |-> <<>>, admin_id |-> Admin ]
        w1 == start_command(w0, "u1")
        w2 == handle_answer_policy_confirmation(
                  w1, "u1", "yes",
                  [ health |-> TRUE, poll |-> [answer |-> "token", at |-> 1],
                    hh_user |-> TRUE, listing |-> [ok |-> TRUE, open |-> Vacancies] ])
        w3 == handle_answer_select_vacancy(w2, "u1", "v1")
        w4 == handle_answer_video_record_request(w3, "u1", "no", "d1")
        w5 == get_sourcing_criterias_from_ai_and_save_to_file(
                  [w4 EXCEPT !.queue = Tail(@)], Head(w4.queue), "c1")
    IN  start_command(w5, "u2")

PipelineInit ==
    /\ users = FunnelCompleted.users
    /\ vac = FunnelCompleted.vac
    /\ ctx = FunnelCompleted.ctx
    /\ kb = FunnelCompleted.kb
    /\ ai_task_queue = FunnelCompleted.queue
    /\ resume_records = FunnelCompleted.rrec
    /\ resume_dir = FunnelCompleted.rdir
    /\ applicant_videos = FunnelCompleted.videos
    /\ outreach = FunnelCompleted.outreach
    /\ delivered = FunnelCompleted.delivered
    /\ last = NoOp
    /\ race = <<>>
    /\ orchestrator = BothBotsStarted

\* the users an admin sweep works on
UsersWithEnoughData ==
    { u \in DOMAIN users : is_vacany_data_enough_for_resume_analysis(World, u) }

\* what HH answers to get_negotiations_by_collection
NegotiationAnswers ==
    { [ok |-> FALSE, items |-> {}] } \cup { [ok |-> TRUE, items |-> S] : S \in SUBSET Resumes }

\* The five admin commands share one frame: the caller must be the admin, the
\* users with enough data are worked on in the order of the records, an
\* exception ends the loop and is reported to the admin.
RECURSIVE admin_update_negotiations_for_all_users(_, _, _)
admin_update_negotiations_for_all_users(w, user_ids, answers) ==
    IF user_ids = <<>> \/ w.raised THEN w
    ELSE LET user_id == Head(user_ids)
         IN admin_update_negotiations_for_all_users(
                IF is_vacany_data_enough_for_resume_analysis(w, user_id)
                THEN source_negotiations_triggered_by_admin_command(
                         Invoked(w, user_id), user_id, answers[user_id])
                ELSE w,
                Tail(user_ids), answers)

admin_update_negotiations_for_all_command(w, caller, answers) ==
    IF w.admin_id = "" \/ caller # w.admin_id
    THEN send_message_to_user(w, "FAIL_TO_IDENTIFY_USER_AS_ADMIN_TEXT")
    ELSE LET w1 == admin_update_negotiations_for_all_users(
                       w, get_list_of_users_from_records(w), answers)
         IN IF w1.raised THEN send_message_to_admin(Caught(w1))
            ELSE send_message_to_user(Reported(w, w1), "TOTAL_USERS_TEXT")

RECURSIVE admin_get_fresh_resumes_for_all_users(_, _, _)
admin_get_fresh_resumes_for_all_users(w, user_ids, available) ==
    IF user_ids = <<>> \/ w.raised THEN w
    ELSE LET user_id == Head(user_ids)
         IN admin_get_fresh_resumes_for_all_users(
                IF is_vacany_data_enough_for_resume_analysis(w, user_id)
                THEN source_resumes_triggered_by_admin_command(
                         Invoked(w, user_id), user_id, available[user_id])
                ELSE w,
                Tail(user_ids), available)

admin_get_fresh_resumes_for_all_command(w, caller, available) ==
    IF w.admin_id = "" \/ caller # w.admin_id
    THEN send_message_to_user(w, "FAIL_TO_IDENTIFY_USER_AS_ADMIN_TEXT")
    ELSE LET w1 == admin_get_fresh_resumes_for_all_users(
                       w, get_list_of_users_from_records(w), available)
         IN IF w1.raised THEN send_message_to_admin(Caught(w1))
            ELSE send_message_to_user(Reported(w, w1), "TOTAL_USERS_TEXT")

RECURSIVE admin_anazlyze_resumes_for_all_users(_, _)
admin_anazlyze_resumes_for_all_users(w, user_ids) ==
    IF user_ids = <<>> \/ w.raised \/ w.blocked THEN w
    ELSE LET user_id == Head(user_ids)
         IN admin_anazlyze_resumes_for_all_users(
                IF is_vacany_data_enough_for_resume_analysis(w, user_id)
                THEN analyze_resume_triggered_by_admin_command(
                         Invoked(w, user_id), user_id)
                ELSE w,
                Tail(user_ids))

\* admin_anazlyze_resumes_for_all_command without the check of the caller
admin_anazlyze_resumes_for_all_command_for_anyone(w, caller) ==
    LET w1 == admin_anazlyze_resumes_for_all_users(
                  w, get_list_of_users_from_records(w))
    IN IF w1.raised THEN send_message_to_admin(Caught(w1))
       ELSE send_message_to_user(Reported(w, w1), "TOTAL_USERS_TEXT")

admin_anazlyze_resumes_for_all_command(w, caller) ==
    IF w.admin_id = "" \/ caller # w.admin_id
    THEN send_message_to_user(w, "FAIL_TO_IDENTIFY_USER_AS_ADMIN_TEXT")
    ELSE LET w1 == admin_anazlyze_resumes_for_all_users(
                       w, get_list_of_users_from_records(w))
         IN IF w1.raised THEN send_message_to_admin(Caught(w1))
            ELSE send_message_to_user(Reported(w, w1), "TOTAL_USERS_TEXT")

RECURSIVE admin_update_resume_records_with_applicants_video_status_for_all_users(_, _)
admin_update_resume_records_with_applicants_video_status_for_all_users(w, user_ids) ==
    IF user_ids = <<>> \/ w.raised THEN w
    ELSE LET user_id == Head(user_ids)
             user_vacancy_id == get_target_vacancy_id_from_records(w, user_id)
         IN admin_update_resume_records_with_applicants_video_status_for_all_users(
                IF /\ is_vacany_data_enough_for_resume_analysis(w, user_id)
                   /\ user_vacancy_id # ""
                THEN update_resume_records_with_fresh_video_from_applicants_command(
                         Invoked(w, user_id), user_id, user_vacancy_id)
                ELSE w,
                Tail(user_ids))

admin_update_resume_records_with_applicants_video_status_for_all_command(w, caller) ==
    IF w.admin_id = "" \/ caller # w.admin_id
    THEN send_message_to_user(w, "FAIL_TO_IDENTIFY_USER_AS_ADMIN_TEXT")
    ELSE LET w1 == admin_update_resume_records_with_applicants_video_status_for_all_users(
                       w, get_list_of_users_from_records(w))
         IN IF w1.raised THEN send_message_to_admin(Caught(w1))
            ELSE send_message_to_user(Reported(w, w1), "TOTAL_USERS_TEXT")

RECURSIVE admin_recommend_applicants_with_video_for_all_users(_, _)
admin_recommend_applicants_with_video_for_all_users(w, user_ids) ==
    IF user_ids = <<>> \/ w.raised THEN w
    ELSE LET user_id == Head(user_ids)
             target_vacancy_id == get_target_vacancy_id_from_records(w, user_id)
         IN admin_recommend_applicants_with_video_for_all_users(
                IF is_vacany_data_enough_for_resume_analysis(w, user_id)
                THEN IF get_list_of_resume_ids_for_recommendation(
                            w, user_id, target_vacancy_id) # {}
                     THEN recommend_resumes_with_video_command(
                              Invoked(w, user_id), user_id)
                     ELSE w
                ELSE w,
                Tail(user_ids))

admin_recommend_applicants_with_video_for_all_command(w, caller) ==
    IF w.admin_id = "" \/ caller # w.admin_id
    THEN send_message_to_user(w, "FAIL_TO_IDENTIFY_USER_AS_ADMIN_TEXT")
    ELSE LET w1 == admin_recommend_applicants_with_video_for_all_users(
                       w, get_list_of_users_from_records(w))
         IN IF w1.raised THEN send_message_to_admin(Caught(w1))
            ELSE send_message_to_user(Reported(w, w1), "TOTAL_USERS_TEXT")

(***************************************************************************)
(* Actions of the resume pipeline.                                         *)
(***************************************************************************)
AdminUpdateNegotiationsForAll ==
    \E caller \in Callers, answers \in [UsersWithEnoughData -> NegotiationAnswers] :
        Commit(admin_update_negotiations_for_all_command(World, caller, answers),
               "admin_update_negotiations_for_all_command", caller)

\* available[u] are the resumes get_resume_info returns for user u
AdminGetFreshResumesForAll ==
    \E caller \in Callers, available \in [UsersWithEnoughData -> SUBSET Resumes] :
        Commit(admin_get_fresh_resumes_for_all_command(World, caller, available),
               "admin_get_fresh_resumes_for_all_command", caller)

\* the command goes on when every put found room in the queue
AdminAnazlyzeResumesForAll(caller) ==
    /\ caller \in Callers
    /\ Commit(admin_anazlyze_resumes_for_all_command(World, caller),
              "admin_anazlyze_resumes_for_all_command", caller)

\* a worker of the task queue takes the oldest job and runs it
RunResumeAnalysisJob ==
    /\ ai_task_queue # <<>>
    /\ Head(ai_task_queue).kind = "resume_analysis"
    /\ \E ai \in {"raise", "high", "low"}, send_ok \in BOOLEAN :
         Commit(resume_analysis_from_ai_to_user_sort_resume(
                    [World EXCEPT !.queue = Tail(@)], Head(ai_task_queue), ai, send_ok),
                "resume_analysis_from_ai_to_user_sort_resume",
                Head(ai_task_queue).user)

\* The applicant bot (not part of the sources) stores the video of an
\* applicant who got the outreach message in video_from_applicants.
ApplicantVideoArrives ==
    \E u \in DOMAIN users, v \in Vacancies :
        \E r \in outreach[u][v] \ applicant_videos[u][v] :
            /\ applicant_videos' = [applicant_videos EXCEPT ![u][v] = @ \cup {r}]
            /\ last' = [NoOp EXCEPT !.op = "applicant_video", !.user = u]
            /\ UNCHANGED <<users, vac, ctx, kb, ai_task_queue, resume_records,
                           resume_dir, outreach, delivered, race, orchestrator>>

AdminUpdateResumeRecordsWithApplicantsVideoStatusForAll(caller) ==
    /\ caller \in Callers
    /\ Commit(admin_update_resume_records_with_applicants_video_status_for_all_command(
              World, caller),
              "admin_update_resume_records_with_applicants_video_status_for_all_command",
              caller)

AdminRecommendApplicantsWithVideoForAll(caller) ==
    /\ caller \in Callers
    /\ Commit(admin_recommend_applicants_with_video_for_all_command(World, caller),
              "admin_recommend_applicants_with_video_for_all_command", caller)

\* the menu action of a manager (handle_chat_menu_action)
RecommendResumesWithVideoCommand(u) ==
    /\ u \in DOMAIN users
    /\ Commit(recommend_resumes_with_video_command(World, u),
              "recommend_resumes_with_video_command", u)

NextPipeline ==
    \/ AdminUpdateNegotiationsForAll
    \/ AdminGetFreshResumesForAll
    \/ \E caller \in Callers : AdminAnazlyzeResumesForAll(caller)
    \/ RunResumeAnalysisJob
    \/ ApplicantVideoArrives
    \/ \E caller \in Callers : AdminUpdateResumeRecordsWithApplicantsVideoStatusForAll(caller)
    \/ \E caller \in Callers : AdminRecommendApplicantsWithVideoForAll(caller)
    \/ \E u \in Users : RecommendResumesWithVideoCommand(u)

SpecPipeline == PipelineInit /\ [][NextPipeline]_vars

(***************************************************************************)
(* Properties of the resume pipeline.                                      *)
(***************************************************************************)
ResumeFlags ==
    { "request_to_shoot_resume_video_sent", "resume_video_received",
      "resume_recommended" }

C7_OutreachNotRepeated ==
    [][\A u \in Users : \A v \in Vacancies : \A r \in DOMAIN resume_records[u][v] :
          (/\ resume_records[u][v][r].request_to_shoot_resume_video_sent = "yes"
           /\ last'.user = u
           /\ u \in DOMAIN users
           /\ users[u].vacancy_id = v)
          => r \notin last'.sent]_vars

\* C8: every resume a step delivers to the manager was not delivered before
\* and is marked resume_recommended = "yes" after the step.
C8_RecommendedOnce ==
    [][\A u \in DOMAIN users : \A v \in Vacancies :
          (last'.user = u /\ users[u].vacancy_id = v
           /\ last'.op = "recommend_resumes_with_video_command")
          => \A r \in last'.delivered :
                 /\ r \notin delivered[u][v]
                 /\ r \in DOMAIN resume_records'[u][v]
                 /\ resume_records'[u][v][r].resume_recommended = "yes"]_vars

(***************************************************************************)
(* Concurrent callers of the records files.  The deployment runs two bot   *)
(* processes on one data directory (main.py), and the specification has    *)
(* the jobs of the task queue run by concurrent workers.  A caller that    *)
(* can be preempted runs update_user_records_with_top_level_key and       *)
(* update_resume_record_with_top_level_key as two steps: the read of the   *)
(* whole file, and the write of the whole file with one key changed.       *)
(* The race starts when both resumes of "u1" are sourced and the analysis  *)
(* sweep has queued a job for each of them.                                *)
(***************************************************************************)
Processes == {"manager_bot", "applicant_bot"}
Workers == {"worker1", "worker2"}

\* the call of update_user_records_with_top_level_key each process makes for
\* the record of "u1": different keys
UpdateCall ==
    [ manager_bot |-> [key |-> "vacancy_video_record_agreed", value |-> "yes"],
      applicant_bot |-> [key |-> "vacancy_video_sending_confirmed", value |-> "yes"] ]

AnalysisQueued ==
    LET w1 == admin_update_negotiations_for_all_command(
                  FunnelCompleted, Admin, [u \in {"u1"} |-> [ok |-> TRUE, items |-> Resumes]])
        w2 == admin_get_fresh_resumes_for_all_command(w1, Admin, [u \in {"u1"} |-> Resumes])
    IN  admin_anazlyze_resumes_for_all_command(w2, Admin)

NoJob == [kind |-> "none", user |-> "", vacancy |-> "", resume |-> "", input |-> ""]

\* a caller: where it is, the job it runs, the verdict of the AI, the content
\* of the file it has read, the resumes whose job it has run to the end
IdleCaller == [pc |-> "idle", job |-> NoJob, ai |-> "", read |-> <<>>, done |-> {}]

RaceInit ==
    /\ users = AnalysisQueued.users
    /\ vac = AnalysisQueued.vac
    /\ ctx = AnalysisQueued.ctx
    /\ kb = AnalysisQueued.kb
    /\ ai_task_queue = AnalysisQueued.queue
    /\ resume_records = AnalysisQueued.rrec
    /\ resume_dir = AnalysisQueued.rdir
    /\ applicant_videos = AnalysisQueued.videos
    /\ outreach = AnalysisQueued.outreach
    /\ delivered = AnalysisQueued.delivered
    /\ last = NoOp
    /\ race = [c \in Processes \cup Workers |-> IdleCaller]
    /\ orchestrator = BothBotsStarted

\* data_service.update_user_records_with_top_level_key: the file is read
ReadUsersRecords(p) ==
    /\ p \in Processes
    /\ race[p].pc = "idle"
    /\ race' = [race EXCEPT ![p].pc = "write", ![p].read = <<users>>]
    /\ UNCHANGED <<users, vac, ctx, kb, ai_task_queue, resume_records, resume_dir,
                   applicant_videos, outreach, delivered, last, orchestrator>>

\* data_service.update_user_records_with_top_level_key: the records that were
\* read are written back with the key changed
WriteUsersRecords(p) ==
    /\ p \in Processes
    /\ race[p].pc = "write"
    /\ LET records == race[p].read[1]
       IN users' = IF "u1" \in DOMAIN records
                   THEN [records EXCEPT !["u1"][UpdateCall[p].key] = UpdateCall[p].value]
                   ELSE users
    /\ race' = [race EXCEPT ![p].pc = "done", ![p].read = <<>>]
    /\ UNCHANGED <<vac, ctx, kb, ai_task_queue, resume_records, resume_dir,
                   applicant_videos, outreach, delivered, last, orchestrator>>

\* a worker of the task queue takes the oldest job
TakeJob(wk) ==
    /\ wk \in Workers
    /\ race[wk].pc = "idle"
    /\ ai_task_queue # <<>>
    /\ Head(ai_task_queue).kind = "resume_analysis"
    /\ ai_task_queue' = Tail(ai_task_queue)
    /\ race' = [race EXCEPT ![wk].pc = "analyze", ![wk].job = Head(ai_task_queue)]
    /\ UNCHANGED <<users, vac, ctx, kb, resume_records, resume_dir,
                   applicant_videos, outreach, delivered, last, orchestrator>>

\* resume_analysis_from_ai_to_user_sort_resume: analyze_resume_with_ai answers,
\* or raises and the job ends in its except branch
AnalyzeResumeWithAi(wk) ==
    /\ wk \in Workers
    /\ race[wk].pc = "analyze"
    /\ \E ai \in {"raise", "high", "low"} :
         race' = IF ai = "raise"
                 THEN [race EXCEPT ![wk].pc = "idle", ![wk].job = NoJob]
                 ELSE [race EXCEPT ![wk].pc = "read_ai_analysis", ![wk].ai = ai]
    /\ UNCHANGED <<users, vac, ctx, kb, ai_task_queue, resume_records, resume_dir,
                   applicant_videos, outreach, delivered, last, orchestrator>>

\* the call of update_resume_record_with_top_level_key a worker is in
ResumeUpdateCall(wk) ==
    LET status == IF race[wk].ai = "high" THEN "passed" ELSE "failed"
    IN  CASE race[wk].pc \in {"read_ai_analysis", "write_ai_analysis"} ->
                 [ key |-> "ai_analysis", value |-> race[wk].ai,
                   write |-> "write_ai_analysis", next |-> "send" ]
          [] race[wk].pc \in {"read_request_sent", "write_request_sent"} ->
                 [ key |-> "request_to_shoot_resume_video_sent", value |-> "yes",
                   write |-> "write_request_sent", next |-> "move" ]
          [] OTHER ->
                 [ key |-> "resume_sorting_status", value |-> status,
                   write |-> "write_sorting_status", next |-> "idle" ]

\* data_service.update_resume_record_with_top_level_key: the file is read
ReadResumeRecords(wk) ==
    /\ wk \in Workers
    /\ race[wk].pc \in {"read_ai_analysis", "read_request_sent", "read_sorting_status"}
    /\ race' = [race EXCEPT
                  ![wk].pc = ResumeUpdateCall(wk).write,
                  ![wk].read = <<resume_records[race[wk].job.user][race[wk].job.vacancy]>>]
    /\ UNCHANGED <<users, vac, ctx, kb, ai_task_queue, resume_records, resume_dir,
                   applicant_videos, outreach, delivered, last, orchestrator>>

\* data_service.update_resume_record_with_top_level_key: the records that were
\* read are written back with the key changed; the last write ends the job
WriteResumeRecords(wk) ==
    /\ wk \in Workers
    /\ race[wk].pc \in {"write_ai_analysis", "write_request_sent", "write_sorting_status"}
    /\ LET job == race[wk].job
           call == ResumeUpdateCall(wk)
           records == race[wk].read[1]
       IN  IF job.resume \in DOMAIN records
           THEN /\ resume_records' =
                       [resume_records EXCEPT ![job.user][job.vacancy] =
                           [records EXCEPT ![job.resume][call.key] = call.value]]
                /\ race' = IF call.next = "idle"
                           THEN [race EXCEPT ![wk].pc = "idle", ![wk].job = NoJob,
                                             ![wk].read = <<>>,
                                             ![wk].done = @ \cup {job.resume}]
                           ELSE [race EXCEPT ![wk].pc = call.next, ![wk].read = <<>>]
           ELSE /\ race' = [race EXCEPT ![wk].pc = "idle", ![wk].job = NoJob,
                                        ![wk].read = <<>>]
                /\ UNCHANGED resume_records
    /\ UNCHANGED <<users, vac, ctx, kb, ai_task_queue, resume_dir,
                   applicant_videos, outreach, delivered, last, orchestrator>>

\* send_message_to_applicant_command up to its update of the records
SendNegotiationMessage(wk) ==
    /\ wk \in Workers
    /\ race[wk].pc = "send"
    /\ outreach' = [outreach EXCEPT ![race[wk].job.user][race[wk].job.vacancy] =
                       @ \cup {race[wk].job.resume}]
    /\ race' = [race EXCEPT ![wk].pc = "read_request_sent"]
    /\ UNCHANGED <<users, vac, ctx, kb, ai_task_queue, resume_records, resume_dir,
                   applicant_videos, delivered, last, orchestrator>>

\* shutil.move of the file of the resume out of "new"
MoveResumeFile(wk) ==
    /\ wk \in Workers
    /\ race[wk].pc = "move"
    /\ LET job == race[wk].job
       IN  IF resume_dir[job.user][job.vacancy][job.resume] = "new"
           THEN /\ resume_dir' = [resume_dir EXCEPT ![job.user][job.vacancy][job.resume] =
                                     IF race[wk].ai = "high" THEN "passed" ELSE "failed"]
                /\ race' = [race EXCEPT ![wk].pc = "read_sorting_status"]
           ELSE /\ race' = [race EXCEPT ![wk].pc = "idle", ![wk].job = NoJob]
                /\ UNCHANGED resume_dir
    /\ UNCHANGED <<users, vac, ctx, kb, ai_task_queue, resume_records,
                   applicant_videos, outreach, delivered, last, orchestrator>>

NextRace ==
    \/ \E p \in Processes : ReadUsersRecords(p)
    \/ \E p \in Processes : WriteUsersRecords(p)
    \/ \E wk \in Workers : TakeJob(wk)
    \/ \E wk \in Workers : AnalyzeResumeWithAi(wk)
    \/ \E wk \in Workers : ReadResumeRecords(wk)
    \/ \E wk \in Workers : WriteResumeRecords(wk)
    \/ \E wk \in Workers : SendNegotiationMessage(wk)
    \/ \E wk \in Workers : MoveResumeFile(wk)

SpecRace == RaceInit /\ [][NextRace]_vars

\* C1: when both processes have made their call of
\* update_user_records_with_top_level_key for the record of "u1", the record
\* holds the value of each of the two keys.
C1_NoLostUpdateOnUserRecord ==
    (\A p \in Processes : race[p].pc = "done")
        => \A p \in Processes : users["u1"][UpdateCall[p].key] = UpdateCall[p].value

\* C2: a resume whose analysis job has run to its end has the analysis and the
\* sorting status of that job in the resume records.
C2_BothJobsWritesKept ==
    \A wk \in Workers : \A r \in race[wk].done :
        /\ resume_records["u1"]["v1"][r].ai_analysis # "empty"
        /\ resume_records["u1"]["v1"][r].resume_sorting_status # "new"

(***************************************************************************)
(* Resume analysis on a disk whose writes can fail.  The jobs of           *)
(* SpecPipeline always get their writes through; here a write of the       *)
(* resume records file may raise while a job runs (disk full, file not     *)
(* writable), which update_resume_record_with_top_level_key re-raises as   *)
(* ValueError.  The sweeps that feed the jobs are those of SpecPipeline.   *)
(***************************************************************************)
\* the keys a job writes, in the order it writes them
DiskFailures ==
    {"ai_analysis", "request_to_shoot_resume_video_sent", "resume_sorting_status"}

RunResumeAnalysisJobOnFailingDisk ==
    /\ ai_task_queue # <<>>
    /\ Head(ai_task_queue).kind = "resume_analysis"
    /\ \E ai \in {"high", "low"}, send_ok \in BOOLEAN, disk \in DiskFailures :
         Commit(resume_analysis_from_ai_to_user_sort_resume(
                    [World EXCEPT !.queue = Tail(@), !.disk = disk],
                    Head(ai_task_queue), ai, send_ok),
                "resume_analysis_from_ai_to_user_sort_resume",
                Head(ai_task_queue).user)

NextStorage ==
    \/ AdminUpdateNegotiationsForAll
    \/ AdminGetFreshResumesForAll
    \/ \E caller \in Callers : AdminAnazlyzeResumesForAll(caller)
    \/ RunResumeAnalysisJob
    \/ RunResumeAnalysisJobOnFailingDisk

SpecStorage == PipelineInit /\ [][NextStorage]_vars

JobOp == "resume_analysis_from_ai_to_user_sort_resume"

\* C11: when the record update that follows a successful external call
\* fails, the update is attempted again before the operation gives up: a job
\* that delivered the outreach message and in which a write of the resume
\* records failed made at least two attempts of that write.
C11_FailedUpdateIsRetried ==
    (last.op = JobOp /\ last.sent # {} /\ last.write_attempts > 0)
        => last.write_attempts >= 2

\* C12: the authorization poll is bounded and ends in a definite outcome: an
\* operation that polled get_token_by_state polled it at most max_attempts
\* times, and when every answer was None or the records-not-ready response
\* (no answer was taken for a token response) it sent AUTH_FAILED_TEXT and
\* left access_token_recieved unset.
C12_PollBoundedAndFailureReported ==
    (/\ last.op \in {"hh_authorization_command", "handle_answer_policy_confirmation"}
     /\ last.polls > 0)
    => /\ last.polls <= max_attempts
       /\ "AUTH_SUCCESS_TEXT" \notin last.msgs
              => /\ "AUTH_FAILED_TEXT" \in last.msgs
                 /\ ~is_user_authorized(World, last.user)

\* C13: a resume-analysis job that fails at any step leaves the resume
\* records as they were before the job: a job that ended without writing a
\* resume_sorting_status (a job that runs to its end writes it) changed no
\* ai_analysis and no request_to_shoot_resume_video_sent either.
C13_FailedJobLeavesRecordUntouched ==
    [][(/\ last'.op = JobOp
        /\ \A u \in Users, v \in Vacancies :
              \A r \in DOMAIN resume_records[u][v] :
                  resume_records'[u][v][r].resume_sorting_status
                      = resume_records[u][v][r].resume_sorting_status)
       => resume_records' = resume_records]_vars

\* C14: a failed analysis job is retried: a resume whose record still has
\* resume_sorting_status "new" has its file in the "new" directory, where
\* the next analysis sweep finds it; no resume is left with status "new"
\* and outside every future sweep.
C14_UnsortedResumeStaysInNew ==
    \A u \in Users, v \in Vacancies :
        \A r \in DOMAIN resume_records[u][v] :
            resume_records[u][v][r].resume_sorting_status = "new"
                => resume_dir[u][v][r] = "new"

AnalyzeOp == "admin_anazlyze_resumes_for_all_command"

FunnelStages == {"absent", "started", "vacancy_selected", "funnel_completed"}

\* the world of Init as a handler sees it
JustDeployed ==
    [ users |-> [u \in {} |-> standard_new_user_values],
      vac |-> [u \in Users |-> [v \in Vacancies |-> NoVacancyDir]],
      ctx |-> [u \in Users |-> EmptyContext],
      kb |-> [u \in Users |-> NoKeyboards],
      queue |-> <<>>,
      rrec |-> [u \in Users |-> [v \in Vacancies |-> NoResumeRecords]],
      rdir |-> [u \in Users |-> [v \in Vacancies |-> [r \in Resumes |-> "none"]]],
      videos |-> [u \in Users |-> [v \in Vacancies |-> {}]],
      outreach |-> [u \in Users |-> [v \in Vacancies |-> {}]],
      delivered |-> [u \in Users |-> [v \in Vacancies |-> {}]],
      msgs |-> {}, admin |-> FALSE, polls |-> 0, calls |-> {}, failed |-> {},
      sent |-> {}, delivered_now |-> {}, blocked |-> FALSE, raised |-> FALSE,
      disk |-> "none", write_attempts |-> 0, processed |-> <<>>, report |-> <<>>,
      admin_id |-> Admin ]

\* manager u goes through the funnel up to stage, the outside world answering
\* well: /start, consent and authorization, vacancy "v1", no welcome video and
\* the description read, the queued vacancy analysis run by a worker
FunnelUpTo(w, u, stage) ==
    LET w1 == start_command(w, u)
        w2 == handle_answer_policy_confirmation(
                  w1, u, "yes",
                  [ health |-> TRUE, poll |-> [answer |-> "token", at |-> 1],
                    hh_user |-> TRUE, listing |-> [ok |-> TRUE, open |-> Vacancies] ])
        w3 == handle_answer_select_vacancy(w2, u, "v1")
        w4 == handle_answer_video_record_request(w3, u, "no", "d1")
        w5 == get_sourcing_criterias_from_ai_and_save_to_file(
                  [w4 EXCEPT !.queue = Tail(@)], Head(w4.queue), "c1")
    IN  CASE stage = "absent" -> w
          [] stage = "started" -> w1
          [] stage = "vacancy_selected" -> w3
          [] stage = "vacancy_description_recieved" -> w4
          [] stage = "funnel_completed" -> w5

SweepInit ==
    \E s1 \in FunnelStages, s2 \in FunnelStages :
        LET w == FunnelUpTo(FunnelUpTo(JustDeployed, "u1", s1), "u2", s2)
        IN  /\ users = w.users
            /\ vac = w.vac
            /\ ctx = w.ctx
            /\ kb = w.kb
            /\ ai_task_queue = w.queue
            /\ resume_records = w.rrec
            /\ resume_dir = w.rdir
            /\ applicant_videos = w.videos
            /\ outreach = w.outreach
            /\ delivered = w.delivered
            /\ last = NoOp
            /\ race = <<>>
            /\ orchestrator = BothBotsStarted

NextSweep ==
    \/ AdminUpdateNegotiationsForAll
    \/ AdminGetFreshResumesForAll
    \/ \E caller \in Callers : AdminAnazlyzeResumesForAll(caller)

SpecSweep == SweepInit /\ [][NextSweep]_vars

NegotiationsOp == "admin_update_negotiations_for_all_command"

FreshResumesOp == "admin_get_fresh_resumes_for_all_command"

\* C18: a failure while processing one user does not abort a sweep: whatever
\* happened for the users before, a sweep of the admin has invoked its
\* per-user command for every user with enough data.
C18_SweepGoesOnAfterFailure ==
    [][(last'.op \in {NegotiationsOp, FreshResumesOp, AnalyzeOp} /\ last'.user = Admin)
       => UsersWithEnoughData
              \subseteq { last'.processed[i] : i \in DOMAIN last'.processed }]_vars

UserKeys == {"vacancy_video_record_agreed"}
ResumeKeys == {"resume_video_received"}

\* the managers whose vacancy, and with it the resume records file, exists
ManagersWithVacancy ==
    { u \in DOMAIN users : get_target_vacancy_id_from_records(World, u) # "" }

UpdateUserRecordsWithTopLevelKey ==
    \E record_id \in Users, key \in UserKeys, value \in Decisions :
        /\ record_id \in Users
        /\ Commit(update_user_records_with_top_level_key(World, record_id, key, value),
                  "update_user_records_with_top_level_key", record_id)

CreateRecordForNewResumeIdInResumeRecords ==
    \E u \in ManagersWithVacancy, resume_record_id \in Resumes :
        Commit(create_record_for_new_resume_id_in_resume_records(
                   World, u, get_target_vacancy_id_from_records(World, u),
                   resume_record_id),
               "create_record_for_new_resume_id_in_resume_records", resume_record_id)

UpdateResumeRecordWithTopLevelKey ==
    \E u \in ManagersWithVacancy, resume_record_id \in Resumes,
       key \in ResumeKeys, value \in Decisions :
        Commit(update_resume_record_with_top_level_key(
                   World, u, get_target_vacancy_id_from_records(World, u),
                   resume_record_id, key, value),
               "update_resume_record_with_top_level_key", resume_record_id)

NextStore ==
    \/ UpdateUserRecordsWithTopLevelKey
    \/ CreateRecordForNewResumeIdInResumeRecords
    \/ UpdateResumeRecordWithTopLevelKey

SpecStore == SweepInit /\ [][NextStore]_vars

\* C20: an update addressed to a record id that does not exist creates no
\* record, leaves the records file as it was, and does not fail the calling
\* operation with an exception, for user records and for resume records.
C20_UpdateOfUnknownIdIsNoOp ==
    [][/\ (/\ last'.op = "update_user_records_with_top_level_key"
           /\ last'.user \notin DOMAIN users)
          => users' = users /\ ~last'.raised
       /\ last'.op = "update_resume_record_with_top_level_key"
          => /\ \A u \in Users, v \in Vacancies :
                  last'.user \notin DOMAIN resume_records[u][v]
                      => resume_records'[u][v] = resume_records[u][v]
             /\ ~last'.raised]_vars

\* C21: an update of key k on record r changes only field k of record r.
\* After update_user_records_with_top_level_key the users records have the
\* same ids, at most one field of the record addressed differs and no field
\* of another record does; the same for the resume records after
\* update_resume_record_with_top_level_key, where no other records file
\* changes either.
C21_UpdateChangesOneField ==
    [][/\ last'.op = "update_user_records_with_top_level_key"
          => /\ DOMAIN users' = DOMAIN users
             /\ \A u \in DOMAIN users :
                  LET changed == { f \in DOMAIN users[u] : users'[u][f] # users[u][f] }
                  IN  /\ DOMAIN users'[u] = DOMAIN users[u]
                      /\ IF u = last'.user THEN changed \subseteq UserKeys
                         ELSE changed = {}
             /\ resume_records' = resume_records
       /\ last'.op = "update_resume_record_with_top_level_key"
          => /\ users' = users
             /\ Cardinality({ uv \in Users \X Vacancies :
                      resume_records'[uv[1]][uv[2]] # resume_records[uv[1]][uv[2]] }) <= 1
             /\ \A u \in Users, v \in Vacancies :
                  /\ DOMAIN resume_records'[u][v] = DOMAIN resume_records[u][v]
                  /\ \A r \in DOMAIN resume_records[u][v] :
                       LET changed == { f \in DOMAIN resume_records[u][v][r] :
                                          resume_records'[u][v][r][f]
                                              # resume_records[u][v][r][f] }
                       IN  IF r = last'.user THEN changed \subseteq ResumeKeys
                           ELSE changed = {}]_vars

\* C21 happens: the update changed vacancy_video_record_agreed in the record
\* of a manager who is through the funnel, next to the record of another
\* manager
C21_Witness ==
    /\ last.op = "update_user_records_with_top_level_key"
    /\ last.user \in DOMAIN users
    /\ users[last.user].vacancy_video_record_agreed = "yes"
    /\ users[last.user].vacancy_sourcing_criterias_recieved = "yes"
    /\ Cardinality(DOMAIN users) = 2

\* C22: record creation is create-if-absent: /start from a user who has a
\* record leaves every field of that record but username as it was (stage
\* flags, access token, selected vacancy), and leaves every other record.
C22_StartKeepsExistingRecord ==
    [][(last'.op = "start_command" /\ last'.user \in DOMAIN users)
       => /\ DOMAIN users' = DOMAIN users
          /\ \A u \in DOMAIN users :
               \A f \in DOMAIN users[u] \ {"username"} : users'[u][f] = users[u][f]]_vars

\* C22 happens: a manager with a selected vacancy and the description read
\* sent /start again
C22_Witness ==
    /\ last.op = "start_command"
    /\ last.user \in DOMAIN users
    /\ users[last.user].access_token_recieved = "yes"
    /\ users[last.user].vacancy_id # ""
    /\ users[last.user].vacancy_description_recieved = "yes"

DownstreamFlags ==
    { "vacancy_video_record_agreed", "vacancy_video_sending_confirmed",
      "vacancy_video_received", "vacancy_description_recieved",
      "vacancy_sourcing_criterias_recieved" }

\* C23: a vacancy selection (handle_answer_select_vacancy writing the
\* vacancy into the record) leaves the downstream flags of the user at "no"
\* (welcome-video flags, description, sourcing criterias) and leaves
\* privacy_policy_confirmed and access_token_recieved as they were.
C23_SelectionResetsDownstreamFlags ==
    [][(/\ last'.op = "handle_answer_select_vacancy"
        /\ "YOU_SELECTED_VACANCY_TEXT" \in last'.msgs)
       => LET u == last'.user
          IN  /\ \A f \in DownstreamFlags : users'[u][f] = "no"
              /\ users'[u].privacy_policy_confirmed = users[u].privacy_policy_confirmed
              /\ users'[u].access_token_recieved = users[u].access_token_recieved]_vars


\* C24: a queued resume analysis job works on the inputs captured when it
\* was put on the queue: while it runs it does not look up the currently
\* selected vacancy of the user (or other mutable state of the record).
C24_JobUsesInputsCapturedAtEnqueue ==
    [][last'.op = JobOp
       => "get_target_vacancy_id_from_records" \notin last'.calls]_vars


(***************************************************************************)
(* The admin commands in a deployment whose environment has no ADMIN_ID:   *)
(* os.getenv("ADMIN_ID", "") gives "" to the command.                      *)
(***************************************************************************)
RecommendOp == "admin_recommend_applicants_with_video_for_all_command"

AdminCommandWithAdminIdUnset ==
    \E caller \in Callers :
        LET w == [World EXCEPT !.admin_id = ""]
        IN  \/ /\ UsersWithEnoughData # {}
               /\ Commit(admin_update_negotiations_for_all_command(
                             w, caller,
                             [u \in UsersWithEnoughData |-> [ok |-> TRUE, items |-> Resumes]]),
                         NegotiationsOp, caller)
            \/ /\ ai_task_queue = <<>>
               /\ Commit(admin_anazlyze_resumes_for_all_command(w, caller),
                         AnalyzeOp, caller)
            \/ /\ ai_task_queue # <<>>
               /\ Commit(admin_recommend_applicants_with_video_for_all_command(w, caller),
                         RecommendOp, caller)

NextAdmin ==
    \/ NextPipeline
    \/ AdminCommandWithAdminIdUnset

SpecAdmin == PipelineInit /\ [][NextAdmin]_vars

\* C25: the sweeps of the admin are for the admin only: a sweep invoked by
\* an id that differs from ADMIN_ID, or while ADMIN_ID is not set, invokes
\* its per-user command for no user, puts no job on the queue and changes no
\* user record, resume record or file.
C25_SweepsAreAdminOnly ==
    [][(/\ last'.op \in { NegotiationsOp, FreshResumesOp, AnalyzeOp, RecommendOp,
                          "admin_update_resume_records_with_applicants_video_status_for_all_command" }
        /\ (last'.admin_id = "" \/ last'.user # last'.admin_id))
       => /\ last'.processed = <<>>
          /\ last'.sent = {} /\ last'.delivered = {}
          /\ ai_task_queue' = ai_task_queue
          /\ users' = users
          /\ resume_records' = resume_records
          /\ resume_dir' = resume_dir
          /\ vac' = vac
          /\ outreach' = outreach
          /\ delivered' = delivered]_vars

\* the analysis sweep invoked by the holder of the usual admin id while
\* ADMIN_ID is not set, when a manager has enough data and a resume in "new"
C25_Witness ==
    /\ last.op = AnalyzeOp
    /\ last.admin_id = ""
    /\ last.user = Admin
    /\ \E u \in UsersWithEnoughData :
         \E r \in Resumes : resume_dir[u][users[u].vacancy_id][r] = "new"


\* C26: in every state a resume whose request_to_shoot_resume_video_sent is
\* "yes" has resume_sorting_status "passed" or "failed": the outreach comes
\* after the scoring and the sorting of the resume.
C26_OutreachOnlyAfterSorting ==
    \A u \in DOMAIN users, v \in Vacancies :
        \A r \in DOMAIN resume_records[u][v] :
            resume_records[u][v][r].request_to_shoot_resume_video_sent = "yes"
                => resume_records[u][v][r].resume_sorting_status \in {"passed", "failed"}


\* C27: the stages of the funnel are completed in order: in every state, for
\* every manager, vacancy_sourcing_criterias_recieved "yes" implies
\* vacancy_description_recieved "yes", which implies vacancy_selected "yes",
\* which implies access_token_recieved "yes", which implies
\* privacy_policy_confirmed "yes".
C27_StagesCompletedInOrder ==
    \A u \in DOMAIN users :
        /\ users[u].vacancy_sourcing_criterias_recieved = "yes"
               => users[u].vacancy_description_recieved = "yes"
        /\ users[u].vacancy_description_recieved = "yes"
               => users[u].vacancy_selected = "yes"
        /\ users[u].vacancy_selected = "yes"
               => users[u].access_token_recieved = "yes"
        /\ users[u].access_token_recieved = "yes"
               => users[u].privacy_policy_confirmed = "yes"

\* a manager whose sourcing criterias arrived: every stage is completed
C27_Witness ==
    \E u \in DOMAIN users :
        /\ users[u].vacancy_sourcing_criterias_recieved = "yes"
        /\ users[u].privacy_policy_confirmed = "yes"
        /\ last.op = "get_sourcing_criterias_from_ai_and_save_to_file"


(***************************************************************************)
(* The bot after a restart.  The process stopped at some point of the      *)
(* funnel of each manager, possibly between two consecutive writes of a    *)
(* handler; the files are what was written up to that point, the task      *)
(* queue and the contexts (both kept in memory) are empty.  The managers   *)
(* then invoke read_vacancy_description_command and                        *)
(* define_sourcing_criterias_command again, and workers run the jobs.      *)
(***************************************************************************)
InterruptionPoints ==
    { "absent", "access_token_recieved", "vacancy_selected", "vacancy_description_file",
      "vacancy_description_recieved", "sourcing_criterias_file", "funnel_completed" }

\* the files after the process stopped while manager u was at point:
\*  "access_token_recieved": in hh_authorization_command, after the write of
\*     the flag and before the write of access_token;
\*  "vacancy_description_file": in read_vacancy_description_command, after the
\*     description file was created and before the write of the flag;
\*  "vacancy_description_recieved": after read_vacancy_description_command, the
\*     vacancy analysis job still on the queue;
\*  "sourcing_criterias_file": in get_sourcing_criterias_from_ai_and_save_to_file,
\*     after the criterias file was written and before the write of the flag;
\*  the other points are between two handlers.
PersistedAfterInterruption(w, u, point) ==
    LET consent == handle_answer_policy_confirmation(
                       start_command(w, u), u, "yes",
                       [ health |-> FALSE, poll |-> [answer |-> "none", at |-> 1],
                         hh_user |-> FALSE, listing |-> [ok |-> FALSE, open |-> {}] ])
        selected == FunnelUpTo(w, u, "vacancy_selected")
        described == FunnelUpTo(w, u, "vacancy_description_recieved")
        stopped ==
            CASE point = "absent" -> w
              [] point = "access_token_recieved" ->
                     update_user_records_with_top_level_key(
                         consent, u, "access_token_recieved", "yes")
              [] point = "vacancy_selected" -> selected
              [] point = "vacancy_description_file" ->
                     [selected EXCEPT !.vac[u]["v1"].description = "d1"]
              [] point = "vacancy_description_recieved" -> described
              [] point = "sourcing_criterias_file" ->
                     [described EXCEPT !.vac[u]["v1"].criteria = "c1"]
              [] point = "funnel_completed" -> FunnelUpTo(w, u, "funnel_completed")
    IN  [stopped EXCEPT !.queue = <<>>, !.ctx[u] = EmptyContext]

RestartInit ==
    \E p1 \in InterruptionPoints, p2 \in InterruptionPoints :
      \E w1 \in { PersistedAfterInterruption(JustDeployed, "u1", p1) } :
        \E w \in { PersistedAfterInterruption(w1, "u2", p2) } :
            /\ users = w.users
            /\ vac = w.vac
            /\ ctx = w.ctx
            /\ kb = w.kb
            /\ ai_task_queue = w.queue
            /\ resume_records = w.rrec
            /\ resume_dir = w.rdir
            /\ applicant_videos = w.videos
            /\ outreach = w.outreach
            /\ delivered = w.delivered
            /\ last = NoOp
            /\ race = <<>>
            /\ orchestrator = BothBotsStarted

\* the external calls succeed: HH returns the description, the AI the criterias
NextRestart ==
    \/ \E u \in Users : ReadVacancyDescriptionCommand(u) /\ last'.failed = {}
    \/ \E u \in Users : DefineSourcingCriteriasCommand(u)
    \/ RunVacancyAnalysisJob /\ last'.failed = {}

\* every manager goes on invoking the two commands and the workers go on
\* running the jobs of the queue
SpecRestart ==
    /\ RestartInit
    /\ [][NextRestart]_vars
    /\ \A u \in Users :
         /\ WF_vars(ReadVacancyDescriptionCommand(u) /\ last'.failed = {})
         /\ WF_vars(DefineSourcingCriteriasCommand(u))
    /\ WF_vars(RunVacancyAnalysisJob /\ last'.failed = {})

\* C28: after a restart the funnel can be completed: for a manager with a
\* selected vacancy, whatever was written before the process stopped,
\* invoking read_vacancy_description_command and
\* define_sourcing_criterias_command again leads to
\* vacancy_description_recieved and vacancy_sourcing_criterias_recieved both
\* "yes", provided the external calls succeed.
C28_FunnelCompletedAfterRestart ==
    \A u \in FunnelUsers :
        (u \in DOMAIN users /\ users[u].vacancy_selected = "yes")
            ~> (/\ u \in DOMAIN users
                /\ users[u].vacancy_description_recieved = "yes"
                /\ users[u].vacancy_sourcing_criterias_recieved = "yes")


\* C29: hh_authorization_command sends AUTH_SUCCESS_TEXT and goes on to
\* pull_user_data_from_hh_command only in a run in which it wrote
\* access_token_recieved "yes" with an access token and an expiry: after a
\* handler that sent the success message or triggered the pull, the record of
\* the manager has the flag "yes", a token and an expiry.
C29_SuccessOnlyWithToken ==
    [][(\/ "AUTH_SUCCESS_TEXT" \in last'.msgs
        \/ "pull_user_data_from_hh_command" \in last'.calls)
       => LET u == last'.user
          IN  /\ users'[u].access_token_recieved = "yes"
              /\ users'[u].access_token # ""
              /\ users'[u].access_token_expires_at # ""
              /\ users[u].access_token_recieved = "no"]_vars


\* C30: a flag is never visible without its payload, also when the process
\* stopped between two consecutive writes: in every state, for every manager,
\* access_token_recieved "yes" implies a non-empty access_token and
\* vacancy_selected "yes" implies a non-empty vacancy_id.
C30_FlagNeverWithoutPayload ==
    \A u \in DOMAIN users :
        /\ users[u].access_token_recieved = "yes" => users[u].access_token # ""
        /\ users[u].vacancy_selected = "yes" => users[u].vacancy_id # ""


\* C31: vacancy analysis jobs are deduplicated by the caller: in every state
\* the task queue holds at most one vacancy analysis job for a (user, vacancy).
C31_OneVacancyAnalysisJobPerVacancy ==
    \A i, j \in DOMAIN ai_task_queue :
        (/\ ai_task_queue[i].kind = "vacancy_analysis"
         /\ ai_task_queue[j].kind = "vacancy_analysis"
         /\ ai_task_queue[i].user = ai_task_queue[j].user
         /\ ai_task_queue[i].vacancy = ai_task_queue[j].vacancy)
            => i = j


\* C32: between jobs the records and the directories agree: for every resume
\* with a record, the file of the resume is in the directory that
\* resume_sorting_status names ("new", "passed" or "failed"), also after a job
\* that moved the file and failed to write the status.
C32_RecordAndDirectoryAgree ==
    \A u \in DOMAIN users, v \in Vacancies :
        \A r \in DOMAIN resume_records[u][v] :
            resume_dir[u][v][r] = resume_records[u][v][r].resume_sorting_status


\* a worker takes the resume analysis job at the head of the queue and no
\* step of the job raises: the record and the file in "new" are there, the
\* AI answers, and every write of the records succeeds
JobCompletesWithoutError ==
    /\ ai_task_queue # <<>>
    /\ Head(ai_task_queue).kind = "resume_analysis"
    /\ ai_task_queue' = Tail(ai_task_queue)
    /\ last'.op = JobOp
    /\ "ai_analysis" \notin last'.failed
    /\ last'.write_attempts = 0
    /\ LET job == Head(ai_task_queue)
       IN  /\ job.resume \in DOMAIN resume_records[job.user][job.vacancy]
           /\ resume_dir[job.user][job.vacancy][job.resume] = "new"

RecommendationInit ==
    \E ids \in SUBSET Resumes :
        \E file \in [ids -> { [standard_new_resume_values EXCEPT
                                  !.resume_sorting_status = s,
                                  !.resume_video_received = video,
                                  !.resume_recommended = recommended] :
                              s \in {"new", "passed", "failed"},
                              video \in Decisions, recommended \in Decisions }] :
            LET w == FunnelCompleted
                v == get_target_vacancy_id_from_records(w, "u1")
            IN  /\ users = w.users
                /\ vac = w.vac
                /\ ctx = w.ctx
                /\ kb = w.kb
                /\ ai_task_queue = w.queue
                /\ resume_records = [w.rrec EXCEPT !["u1"][v] = file]
                /\ resume_dir = [w.rdir EXCEPT !["u1"][v] =
                                    [r \in Resumes |->
                                        IF r \in ids THEN file[r].resume_sorting_status
                                        ELSE "none"]]
                /\ applicant_videos = w.videos
                /\ outreach = w.outreach
                /\ delivered = w.delivered
                /\ last = NoOp
                /\ race = <<>>
                /\ orchestrator = BothBotsStarted

\* the callers pass the target vacancy of the user; the list returned is
\* kept in last.delivered
GetListOfResumeIdsForRecommendation ==
    \E u \in ManagersWithVacancy :
        /\ u \in Users
        /\ Commit([World EXCEPT !.delivered_now =
                       get_list_of_resume_ids_for_recommendation(
                           World, u, get_target_vacancy_id_from_records(World, u))],
                  "get_list_of_resume_ids_for_recommendation", u)

NextRecommendation ==
    \/ GetListOfResumeIdsForRecommendation
    \/ \E u \in Users : RecommendResumesWithVideoCommand(u)

SpecRecommendation == RecommendationInit /\ [][NextRecommendation]_vars

\* C34: the list get_list_of_resume_ids_for_recommendation returns holds a
\* resume exactly when the resume has a record with resume_sorting_status
\* "passed", resume_video_received "yes" and resume_recommended "no": no other
\* resume is returned and no such resume is omitted.
C34_ListForRecommendationIsExact ==
    last.op = "get_list_of_resume_ids_for_recommendation" =>
        LET records == resume_records[last.user][users[last.user].vacancy_id]
        IN  \A r \in Resumes :
                r \in last.delivered <=>
                    /\ r \in DOMAIN records
                    /\ records[r].resume_sorting_status = "passed"
                    /\ records[r].resume_video_received = "yes"
                    /\ records[r].resume_recommended = "no"

\* the list was taken from a file with a resume to recommend and a passed
\* resume with video that was recommended before
C34_Witness ==
    /\ last.op = "get_list_of_resume_ids_for_recommendation"
    /\ last.delivered # {}
    /\ \E r \in DOMAIN resume_records[last.user][users[last.user].vacancy_id] :
         LET rec == resume_records[last.user][users[last.user].vacancy_id][r]
         IN  /\ rec.resume_sorting_status = "passed"
             /\ rec.resume_video_received = "yes"
             /\ rec.resume_recommended = "yes"
             /\ r \notin last.delivered


\* C35: the selected vacancy is stable: in every step (a command, a menu
\* action, a click on a vacancy button of any keyboard, a job), a user record
\* with vacancy_selected "yes" keeps its vacancy_id and its vacancy_name.
C35_SelectedVacancyIsStable ==
    [][\A u \in DOMAIN users :
          users[u].vacancy_selected = "yes"
              => /\ u \in DOMAIN users'
                 /\ users'[u].vacancy_selected = "yes"
                 /\ users'[u].vacancy_id = users[u].vacancy_id
                 /\ users'[u].vacancy_name = users[u].vacancy_name]_vars

\* a manager with a selected vacancy clicked the button of another vacancy on
\* a keyboard that is still in the chat
C35_Witness ==
    /\ last.op = "handle_answer_select_vacancy"
    /\ last.user \in DOMAIN users
    /\ users[last.user].vacancy_selected = "yes"
    /\ "YOU_SELECTED_VACANCY_TEXT" \notin last.msgs
    /\ \E v \in kb[last.user].vacancy :
         /\ v # users[last.user].vacancy_id
         /\ vac[last.user][v].exists


\* C36: a step of handle_answer_confrim_sending_video that calls
\* download_incoming_video_locally either leaves vacancy_video_received as it
\* was (the download failed), or stores vacancy_video_received "yes" together
\* with vacancy_video_path, clears the pending video data of the context and
\* triggers read_vacancy_description_command.
C36_DownloadedVideoIsRecordedAndFunnelGoesOn ==
    [][(/\ last'.op = "handle_answer_confrim_sending_video"
        /\ "download_incoming_video_locally" \in last'.calls
        /\ last'.user \in DOMAIN users)
       => LET u == last'.user
          IN  \/ users'[u].vacancy_video_received = users[u].vacancy_video_received
              \/ /\ users'[u].vacancy_video_received = "yes"
                 /\ users'[u].vacancy_video_path # ""
                 /\ ~ctx'[u].pending_file_id
                 /\ "read_vacancy_description_command" \in last'.calls]_vars


\* C37: in every state, is_welcome_video_recorded is true for a user exactly
\* when the record of the user has vacancy_video_received = "yes".
C37_WelcomeVideoRecordedIffReceived ==
    \A u \in Users :
        is_welcome_video_recorded(World, u)
            <=> (u \in DOMAIN users /\ users[u].vacancy_video_received = "yes")


(***************************************************************************)
(* The orchestrator of main.py.  The bots do nothing here but run and      *)
(* exit; a bot may exit at any time, on its own or after a signal of the   *)
(* orchestrator.  The runs are those in which nobody signals the           *)
(* orchestrator itself (SIGTERM, SIGINT).                                  *)
(***************************************************************************)
manager_bot_vars ==
    <<users, vac, ctx, kb, ai_task_queue, resume_records, resume_dir,
      applicant_videos, outreach, delivered, last, race>>

\* shutdown(procs, reason) is entered: its first loop is to run over procs
shutdown(o, procs, reason) ==
    [o EXCEPT !.pc = "shutdown", !.reason = reason, !.phase = "terminate",
              !.todo = procs, !.deadline = FALSE]

SupervisorInit ==
    /\ users = JustDeployed.users
    /\ vac = JustDeployed.vac
    /\ ctx = JustDeployed.ctx
    /\ kb = JustDeployed.kb
    /\ ai_task_queue = JustDeployed.queue
    /\ resume_records = JustDeployed.rrec
    /\ resume_dir = JustDeployed.rdir
    /\ applicant_videos = JustDeployed.videos
    /\ outreach = JustDeployed.outreach
    /\ delivered = JustDeployed.delivered
    /\ last = NoOp
    /\ race = <<>>
    /\ orchestrator = OrchestratorStarted

\* a child process ends: p.poll() gives its code from now on
BotExits ==
    \E b \in {"manager", "applicant"}, code \in {"0", "1"} :
        /\ orchestrator.bots[b].state = "running"
        /\ orchestrator' = [orchestrator EXCEPT !.bots[b].state = "exited",
                                                !.bots[b].returncode = code]
        /\ UNCHANGED manager_bot_vars

\* "Start manager bot": when start_bot_process raises, the exception is
\* raised again, shutdown(procs, "exception") finds no process, sys.exit(1)
\* follows and the finally branch finds procs empty
StartManagerBot ==
    /\ orchestrator.pc = "start_manager"
    /\ \E started \in BOOLEAN :
         orchestrator' =
             IF started
             THEN [start_bot_process(orchestrator, "manager")
                      EXCEPT !.pc = "start_applicant"]
             ELSE [orchestrator EXCEPT !.pc = "exited", !.exit_code = 1]
    /\ UNCHANGED manager_bot_vars

\* StartApplicantBot without the shutdown of the manager bot: the failure of
\* the start ends the orchestrator at once
StartApplicantBotLeavingManager ==
    /\ orchestrator.pc = "start_applicant"
    /\ \E started \in BOOLEAN :
         orchestrator' =
             IF started
             THEN [start_bot_process(orchestrator, "applicant")
                      EXCEPT !.pc = "monitoring"]
             ELSE [orchestrator EXCEPT !.pc = "exited", !.exit_code = 1]
    /\ UNCHANGED manager_bot_vars

\* "Start applicant bot": when start_bot_process raises and the manager bot
\* is alive, shutdown([manager_proc], "applicant-startup-failure") is called
\* before the exception is raised again
StartApplicantBot ==
    /\ orchestrator.pc = "start_applicant"
    /\ \E started \in BOOLEAN :
         orchestrator' =
             IF started
             THEN [start_bot_process(orchestrator, "applicant")
                      EXCEPT !.pc = "monitoring"]
             ELSE IF orchestrator.bots["manager"].state = "running"
             THEN shutdown(orchestrator, <<"manager">>, "applicant-startup-failure")
             ELSE shutdown(orchestrator, orchestrator.procs, "exception")
    /\ UNCHANGED manager_bot_vars

\* Monitor ending the orchestrator as soon as a bot has exited, without the
\* finally branch
MonitorWithoutShutdown ==
    /\ orchestrator.pc = "monitoring"
    /\ \E b \in {"manager", "applicant"} : orchestrator.bots[b].returncode # "None"
    /\ orchestrator' = [orchestrator EXCEPT !.pc = "exited", !.exit_code = 1]
    /\ UNCHANGED manager_bot_vars

\* The monitoring loop polls both bots every two seconds; when one of them
\* has a code the loop is left and the finally branch calls
\* shutdown(procs, "main-exit")
Monitor ==
    /\ orchestrator.pc = "monitoring"
    /\ \E b \in {"manager", "applicant"} : orchestrator.bots[b].returncode # "None"
    /\ orchestrator' = shutdown(orchestrator, orchestrator.procs, "main-exit")
    /\ UNCHANGED manager_bot_vars

\* first loop of shutdown, one process: terminate() when the process is alive
ShutdownTerminate ==
    /\ orchestrator.pc = "shutdown"
    /\ orchestrator.phase = "terminate"
    /\ LET p == Head(orchestrator.todo)
           o == IF orchestrator.bots[p].state = "running"
                THEN [orchestrator EXCEPT !.bots[p].terminate = TRUE]
                ELSE orchestrator
       IN  orchestrator' =
               IF Tail(o.todo) = <<>>
               THEN [o EXCEPT !.phase = "wait", !.todo = o.procs]
               ELSE [o EXCEPT !.todo = Tail(@)]
    /\ UNCHANGED manager_bot_vars

\* second loop of shutdown, one process: a process that is alive is polled
\* until it has exited or the deadline (30 seconds from the start of the loop,
\* one deadline for all processes) has come, and is killed when it is still
\* alive then.  After the last process shutdown returns: to the raise of
\* the start-up failure and shutdown(procs, "exception"), to sys.exit(1) and
\* the finally branch with shutdown(procs, "main-exit"), or to sys.exit(1).
ShutdownWait ==
    /\ orchestrator.pc = "shutdown"
    /\ orchestrator.phase = "wait"
    /\ LET p == Head(orchestrator.todo)
           o == IF orchestrator.bots[p].state = "running"
                THEN [orchestrator EXCEPT !.bots[p].kill = TRUE, !.deadline = TRUE]
                ELSE orchestrator
       IN  orchestrator' =
               IF Tail(o.todo) # <<>> THEN [o EXCEPT !.todo = Tail(@)]
               ELSE IF o.reason = "applicant-startup-failure"
               THEN shutdown(o, o.procs, "exception")
               ELSE IF o.reason = "exception"
               THEN shutdown(o, o.procs, "main-exit")
               ELSE [o EXCEPT !.pc = "exited", !.exit_code = 1, !.todo = <<>>]
    /\ UNCHANGED manager_bot_vars

NextSupervisor ==
    \/ StartManagerBot
    \/ StartApplicantBot
    \/ BotExits
    \/ Monitor
    \/ ShutdownTerminate
    \/ ShutdownWait

\* the orchestrator is a running process: each of its steps is taken in the end
SpecSupervisor ==
    /\ SupervisorInit
    /\ [][NextSupervisor]_vars
    /\ WF_vars(StartManagerBot)
    /\ WF_vars(StartApplicantBot)
    /\ WF_vars(Monitor)
    /\ WF_vars(ShutdownTerminate)
    /\ WF_vars(ShutdownWait)

\* C38: once both bots are started and one of them has exited, the
\* orchestrator leaves the monitoring loop and exits; when it has exited
\* after both bots were started its status is 1 and each bot has exited or
\* was sent terminate; a bot is killed only after it was sent terminate; and
\* the orchestrator never exits leaving a started bot that has not exited
\* and was sent neither terminate nor kill.
C38_BotExitEndsOrchestratorAfterShutdown ==
    /\ [](\A b \in {"manager", "applicant"} :
            /\ orchestrator.bots[b].kill => orchestrator.bots[b].terminate
            /\ orchestrator.pc = "exited" =>
                  \/ orchestrator.bots[b].state \in {"none", "exited"}
                  \/ orchestrator.bots[b].terminate
                  \/ orchestrator.bots[b].kill)
    /\ []((orchestrator.pc = "exited" /\ Len(orchestrator.procs) = 2)
              => orchestrator.exit_code = 1)
    /\ ((/\ orchestrator.pc = "monitoring"
         /\ \E b \in {"manager", "applicant"} : orchestrator.bots[b].state = "exited")
            ~> (orchestrator.pc = "exited" /\ orchestrator.exit_code = 1))

\* the orchestrator has exited after the manager bot exited with code 0 and
\* the applicant bot, sent terminate, was still alive at the deadline
C38_Witness ==
    /\ orchestrator.pc = "exited"
    /\ orchestrator.exit_code = 1
    /\ orchestrator.procs = <<"manager", "applicant">>
    /\ orchestrator.bots["manager"].returncode = "0"
    /\ ~orchestrator.bots["manager"].terminate
    /\ orchestrator.bots["applicant"].terminate
    /\ orchestrator.bots["applicant"].kill

\* C39: when the applicant bot fails to start after the manager bot was
\* started, the orchestrator exits with status 1 and the manager bot has
\* exited or was sent terminate; and the applicant bot is never started
\* without the manager bot having been started.
C39_StartupFailureStopsManager ==
    /\ (/\ orchestrator.pc = "exited"
        /\ orchestrator.procs = <<"manager">>)
           => /\ orchestrator.exit_code = 1
              /\ \/ orchestrator.bots["manager"].state = "exited"
                 \/ orchestrator.bots["manager"].terminate
    /\ orchestrator.bots["manager"].state = "none"
           => orchestrator.bots["applicant"].state = "none"

\* the orchestrator has exited after a failed start of the applicant bot, and
\* the manager bot was sent terminate
C39_Witness ==
    /\ orchestrator.pc = "exited"
    /\ orchestrator.exit_code = 1
    /\ orchestrator.procs = <<"manager">>
    /\ orchestrator.bots["applicant"].state = "none"
    /\ orchestrator.bots["manager"].terminate

====
